---- MODULE Spec2Model ----
(***************************************************************************)
(* Location fusion of navit (navit/location.c, navit/vehicle.c): the raw   *)
(* location set, the fused location and the callbacks location_update      *)
(* raises.                                                                 *)
(*                                                                         *)
(* Numbers.  A C floating-point value is modelled exactly, without         *)
(* rounding, as a record [k, n, d]:                                        *)
(*   k = "num"       the rational n/d (d > 0, lowest terms), or, with      *)
(*                   d = 0, the IEEE specials: n = 1 is +inf, n = -1 is    *)
(*                   -inf and n = 0 is NaN;                                *)
(*   k = "sqrt"      the irrational square root of n/d;                    *)
(*   k = "acos"      acos(x) where x has the sign of n and x*x = |n|/d;    *)
(*   k = "360-acos"  360.0 - acos(x), x as above.                          *)
(* A geodetic position (struct coord_geo) is modelled as the direction of  *)
(* its point on the unit sphere: a triple of integers in lowest terms,     *)
(* <<1,0,0>> being lat 0 / lng 0, <<0,1,0>> lat 0 / lng 90 E,              *)
(* <<0,-1,0>> lat 0 / lng 90 W and <<0,0,1>> the north pole.               *)
(***************************************************************************)
EXTENDS Integers, Sequences, FiniteSets, TLC

(***************************************************************************)
(* Bounds of the model                                                     *)
(***************************************************************************)
\* number of raw locations in the NULL-terminated array handed to fusion
NumSlots == 2

(***************************************************************************)
(* Exact arithmetic on C floating-point values                             *)
(***************************************************************************)
\* F applied to the value of x, x being evaluated once
Let(x, F(_)) == CHOOSE r \in {F(y) : y \in {x}} : TRUE

Abs(x) == IF x < 0 THEN 0 - x ELSE x

Sgn(x) == IF x > 0 THEN 1 ELSE IF x < 0 THEN 0 - 1 ELSE 0

RECURSIVE Gcd(_, _)
Gcd(a, b) == IF b = 0 THEN a ELSE Gcd(b, a % b)

\* the value n/d, normalised (d = 0 gives +inf, -inf or NaN)
Q(n, d) ==
    IF d = 0 THEN [k |-> "num", n |-> Sgn(n), d |-> 0]
    ELSE LET g == Gcd(Abs(n), Abs(d))
             s == Sgn(d)
         IN  [k |-> "num", n |-> (s * n) \div g, d |-> (s * d) \div g]

F0 == Q(0, 1)

F1 == Q(1, 1)

NaN == Q(0, 0)

IsNaN(a) == a.k = "num" /\ a.d = 0 /\ a.n = 0

IsFinite(a) == a.k = "num" /\ a.d > 0

\* a + b
FAdd(a, b) ==
    IF a.d = 0 /\ b.d = 0
    THEN (IF a.n = b.n THEN a ELSE NaN)
    ELSE Q(a.n * b.d + b.n * a.d, a.d * b.d)

\* a * b
FMul(a, b) == Q(a.n * b.n, a.d * b.d)

\* 1 / b  (1/0 is +inf, 1/inf is 0)
FInv(b) == Q(b.d, b.n)

\* a / b  (x/0 is +-inf, 0/0 and inf/inf are NaN)
FDiv(a, b) == FMul(a, FInv(b))

\* a - b
FSub(a, b) == FAdd(a, Q(0 - b.n, b.d))

\* the C comparisons a > 0, a >= 0, a != 0, a == 0 (all false on NaN but !=)
FGt0(a) == a.n > 0

FGe0(a) == a.n > 0 \/ (a.n = 0 /\ a.d > 0)

FNe0(a) == ~(a.n = 0 /\ a.d > 0)

FEq0(a) == a.n = 0 /\ a.d > 0

\* integer square root of a perfect square, -1 when m is none
ISqrt(m) ==
    IF m >= 0 /\ \E s \in 0..m : s * s = m
    THEN CHOOSE s \in 0..m : s * s = m
    ELSE 0 - 1

\* sqrtf(a): exact for squares of rationals, symbolic otherwise
FSqrt(a) ==
    IF a.d = 0 THEN (IF a.n = 1 THEN a ELSE NaN)
    ELSE IF a.n < 0 THEN NaN
    ELSE IF ISqrt(a.n) >= 0 /\ ISqrt(a.d) >= 0 THEN Q(ISqrt(a.n), ISqrt(a.d))
    ELSE [k |-> "sqrt", n |-> a.n, d |-> a.d]

(***************************************************************************)
(* enum preference, enum attr_position_valid, enum location_flags          *)
(***************************************************************************)
preference_low == 0

preference_medium == 1

preference_high == 2

Preferences == {preference_low, preference_medium, preference_high}

attr_position_valid_invalid == 0

attr_position_valid_static == 1

attr_position_valid_extrapolated_time == 2

attr_position_valid_extrapolated_spatial == 3

attr_position_valid_valid == 4

Validities == attr_position_valid_invalid..attr_position_valid_valid

location_flag_has_geo == 1

location_flag_has_speed == 2

location_flag_has_direction == 4

location_flag_has_height == 8

location_flag_has_radius == 16

location_flag_has_sat_data == 32

INT_MAX == 2147483647

\* flags & f
HasFlag(flags, f) == (flags \div f) % 2 = 1

\* flags | f
SetFlag(flags, f) == IF HasFlag(flags, f) THEN flags ELSE flags + f

\* flags & ~f
ClearFlag(flags, f) == IF HasFlag(flags, f) THEN flags - f ELSE flags

(***************************************************************************)
(* struct location and its accessors                                       *)
(***************************************************************************)
\* lat = 0, lng = 0, as g_new0 leaves struct coord_geo
GeoZero == <<1, 0, 0>>

\* struct timeval
Timeval(sec, usec) == [tv_sec |-> sec, tv_usec |-> usec]

\* g_new0(struct location, 1): every member zero
ZeroLocation ==
    [geo |-> GeoZero, speed |-> F0, direction |-> F0, height |-> F0,
     radius |-> F0, fix_type |-> 0, fix_time |-> Timeval(0, 0),
     sats |-> 0, sats_used |-> 0, valid |-> 0, flags |-> 0, preference |-> 0]

location_new == [ZeroLocation EXCEPT !.valid = attr_position_valid_invalid]

location_set_altitude(this, altitude) ==
    [this EXCEPT !.height = altitude,
                 !.flags = SetFlag(this.flags, location_flag_has_height)]

location_set_bearing(this, bearing) ==
    [this EXCEPT !.direction = bearing,
                 !.flags = SetFlag(this.flags, location_flag_has_direction)]

location_set_fix_time(this, time) == [this EXCEPT !.fix_time = time]

location_set_fix_type(this, type) == [this EXCEPT !.fix_type = type]

location_set_position(this, position) ==
    [this EXCEPT !.geo = position,
                 !.flags = SetFlag(this.flags, location_flag_has_geo)]

\* accuracy is an int
location_set_position_accuracy(this, accuracy) ==
    [this EXCEPT !.radius = Q(accuracy, 1),
                 !.flags = SetFlag(this.flags, location_flag_has_radius)]

location_set_preference(this, preference) == [this EXCEPT !.preference = preference]

location_set_sat_data(this, sats, sats_used) ==
    [this EXCEPT !.sats = sats, !.sats_used = sats_used,
                 !.flags = SetFlag(this.flags, location_flag_has_sat_data)]

location_set_speed(this, speed) ==
    [this EXCEPT !.speed = speed,
                 !.flags = SetFlag(this.flags, location_flag_has_speed)]

location_set_validity(this, valid) == [this EXCEPT !.valid = valid]

location_has_altitude(this) == HasFlag(this.flags, location_flag_has_height)

location_has_bearing(this) == HasFlag(this.flags, location_flag_has_direction)

location_has_position(this) == HasFlag(this.flags, location_flag_has_geo)

location_has_position_accuracy(this) == HasFlag(this.flags, location_flag_has_radius)

location_has_sat_data(this) == HasFlag(this.flags, location_flag_has_sat_data)

location_has_speed(this) == HasFlag(this.flags, location_flag_has_speed)

(***************************************************************************)
(* Helpers location_update calls                                           *)
(***************************************************************************)
\* faulty variant of get_effective_preference_level: the penalties of the two
\* extrapolated validities are exchanged
get_effective_preference_level_swapped(plev, valid) ==
    CASE valid = attr_position_valid_invalid -> 0 - INT_MAX
      [] valid = attr_position_valid_valid -> plev
      [] valid = attr_position_valid_static -> plev
      [] valid = attr_position_valid_extrapolated_spatial -> plev - 2
      [] OTHER -> plev - 1

\* faulty variant of get_effective_preference_level: an invalid location is
\* ranked one below the lowest preference instead of at -INT_MAX
get_effective_preference_level_shallow(plev, valid) ==
    CASE valid = attr_position_valid_invalid -> preference_low - 1
      [] valid = attr_position_valid_valid -> plev
      [] valid = attr_position_valid_static -> plev
      [] valid = attr_position_valid_extrapolated_spatial -> plev - 1
      [] OTHER -> plev - 2

get_effective_preference_level(plev, valid) ==
    CASE valid = attr_position_valid_invalid -> 0 - INT_MAX
      [] valid = attr_position_valid_valid -> plev
      [] valid = attr_position_valid_static -> plev
      [] valid = attr_position_valid_extrapolated_spatial -> plev - 1
      [] OTHER -> plev - 2

\* rank of a validity: invalid < extrapolated by time < extrapolated
\* spatially < static < valid
ValidRank(v) ==
    CASE v = attr_position_valid_invalid -> 0
      [] v = attr_position_valid_extrapolated_time -> 1
      [] v = attr_position_valid_extrapolated_spatial -> 2
      [] v = attr_position_valid_static -> 3
      [] OTHER -> 4

\* > 0 when validity a is better than b, < 0 when worse, 0 when equal
attr_position_valid_comp(a, b) == ValidRank(a) - ValidRank(b)

\* timercmp(a, b, >)
TimerGt(a, b) ==
    IF a.tv_sec = b.tv_sec THEN a.tv_usec > b.tv_usec ELSE a.tv_sec > b.tv_sec

\* cosine and sine of a bearing given in degrees (multiples of 90 only)
navit_cos(deg) ==
    IF ~IsFinite(deg) THEN NaN
    ELSE CASE deg = Q(0, 1) -> Q(1, 1)
           [] deg = Q(180, 1) -> Q(0 - 1, 1)
           [] OTHER -> Q(0, 1)

navit_sin(deg) ==
    IF ~IsFinite(deg) THEN NaN
    ELSE CASE deg = Q(90, 1) -> Q(1, 1)
           [] deg = Q(270, 1) -> Q(0 - 1, 1)
           [] OTHER -> Q(0, 1)

\* transform_geo_to_cart(geo, 1, 1, cart): the point of geo on the unit
\* sphere (raw positions are unit vectors with integer components)
transform_geo_to_cart(geo) == <<Q(geo[1], 1), Q(geo[2], 1), Q(geo[3], 1)>>

\* transform_cart_to_geo(cart, len, len, geo) with len the length of cart:
\* the geodetic position in the direction of cart
transform_cart_to_geo(cart) ==
    LET m == cart[1].d * cart[2].d * cart[3].d
        x == (cart[1].n * m) \div cart[1].d
        y == (cart[2].n * m) \div cart[2].d
        z == (cart[3].n * m) \div cart[3].d
        g == Gcd(Gcd(Abs(x), Abs(y)), Abs(z))
    IN  <<x \div g, y \div g, z \div g>>

\* navit_acos(dirx / direction_weight) where direction_weight = sqrtf(w2) > 0
AcosRatio(dirx, w2) ==
    IF IsNaN(dirx) \/ ~(dirx.k = "num") THEN NaN
    ELSE IF w2.d = 0 THEN (IF dirx.d = 0 THEN NaN ELSE [k |-> "acos", n |-> 0, d |-> 1])
    ELSE IF dirx.d = 0 THEN NaN
    ELSE LET asq == FDiv(FMul(dirx, dirx), w2)
         IN  IF asq.n > asq.d THEN NaN
             ELSE [k |-> "acos", n |-> Sgn(dirx.n) * asq.n, d |-> asq.d]

\* 360.0 - a for a = acos(..)
F360Minus(a) == IF a.k = "acos" THEN [a EXCEPT !.k = "360-acos"] ELSE NaN

(***************************************************************************)
(* location_update, first pass: best effective preference level per        *)
(* attribute and the metadata of the positions                             *)
(***************************************************************************)
\* fix type, fix time, validity and preference of tmp improved by those of l
MergeMeta(tmp, l) ==
    [tmp EXCEPT
       !.fix_type = IF l.fix_type > tmp.fix_type THEN l.fix_type ELSE tmp.fix_type,
       !.fix_time = IF TimerGt(l.fix_time, tmp.fix_time) THEN l.fix_time ELSE tmp.fix_time,
       !.valid = IF attr_position_valid_comp(l.valid, tmp.valid) > 0
                 THEN l.valid ELSE tmp.valid,
       !.preference = IF l.preference > tmp.preference
                      THEN l.preference ELSE tmp.preference]

\* fix type, fix time, validity and preference of tmp replaced by those of l
TakeMeta(tmp, l) ==
    [tmp EXCEPT !.fix_type = l.fix_type, !.fix_time = l.fix_time,
                !.valid = l.valid, !.preference = l.preference]

\* whether a raw entry is skipped by both passes
Ignored(i_eplev) == i_eplev = 0 - INT_MAX

\* the locals of location_update as declared, before the first pass
Pass1Init ==
    [geo_eplev |-> 0 - INT_MAX, speed_eplev |-> 0 - INT_MAX,
     direction_eplev |-> 0 - INT_MAX, height_eplev |-> 0 - INT_MAX,
     geo_count |-> 0, direction_count |-> 0, tmp |-> ZeroLocation]

\* one iteration of the first loop for raw entry l
Pass1Step(p, l) ==
    LET i_eplev == get_effective_preference_level(l.preference, l.valid)
        hasgeo == HasFlag(l.flags, location_flag_has_geo)
        hasdir == HasFlag(l.flags, location_flag_has_direction)
    IN  IF Ignored(i_eplev) THEN p
        ELSE [geo_eplev |->
                IF hasgeo /\ i_eplev > p.geo_eplev THEN i_eplev ELSE p.geo_eplev,
              geo_count |->
                IF hasgeo /\ i_eplev > p.geo_eplev THEN 1
                ELSE IF hasgeo /\ i_eplev = p.geo_eplev THEN p.geo_count + 1
                ELSE p.geo_count,
              tmp |->
                IF hasgeo /\ i_eplev > p.geo_eplev THEN TakeMeta(p.tmp, l)
                ELSE IF hasgeo /\ i_eplev = p.geo_eplev THEN MergeMeta(p.tmp, l)
                ELSE p.tmp,
              speed_eplev |->
                IF i_eplev > p.speed_eplev /\ HasFlag(l.flags, location_flag_has_speed)
                THEN i_eplev ELSE p.speed_eplev,
              direction_eplev |->
                IF hasdir /\ i_eplev > p.direction_eplev THEN i_eplev
                ELSE p.direction_eplev,
              direction_count |->
                IF hasdir /\ i_eplev > p.direction_eplev THEN 1
                ELSE IF hasdir /\ i_eplev = p.direction_eplev THEN p.direction_count + 1
                ELSE p.direction_count,
              height_eplev |->
                IF i_eplev > p.height_eplev /\ HasFlag(l.flags, location_flag_has_height)
                THEN i_eplev ELSE p.height_eplev]

RECURSIVE Pass1From(_, _, _)
Pass1From(in, i, p) ==
    IF i > Len(in) THEN p ELSE Pass1From(in, i + 1, Pass1Step(p, in[i]))

\* for (i = 0; in[i]; i++) of the first pass
Pass1(in) == Pass1From(in, 1, Pass1Init)

(***************************************************************************)
(* location_update, second pass: aggregation over the winners              *)
(***************************************************************************)
\* faulty variant of Contributes: the effective preference level is not
\* compared with the best one
Contributes_any_level(l, flag, i_eplev, best) == HasFlag(l.flags, flag)

\* (in[i]->flags & flag) && (i_eplev == best)
Contributes(l, flag, i_eplev, best) == HasFlag(l.flags, flag) /\ i_eplev = best

\* faulty variant of KalmanGain: the variance of the new sample, not that of
\* the estimate, is the numerator
KalmanGain_swapped(geo_p, radius) ==
    FDiv(FMul(radius, radius), FAdd(geo_p, FMul(radius, radius)))

\* geo_k = geo_p / (geo_p + in[i]->radius * in[i]->radius)
KalmanGain(geo_p, radius) == FDiv(geo_p, FAdd(geo_p, FMul(radius, radius)))

\* (1.0 - geo_k) * cart + geo_k * cart_i, per component
Blend(cart, cart_i, geo_k) ==
    [c \in 1..3 |-> FAdd(FMul(FSub(F1, geo_k), cart[c]), FMul(geo_k, cart_i[c]))]

\* the locals of location_update the second pass accumulates into
Pass2Init(p) ==
    [tmp |-> p.tmp, geo_p |-> F0, cart |-> <<F0, F0, F0>>,
     speed_weight |-> F0, height_weight |-> F0, dirx |-> F0, diry |-> F0]

\* position part of one iteration
Pass2Geo(a, l, p) ==
    IF p.geo_count = 1
    THEN [a EXCEPT !.tmp = [a.tmp EXCEPT
                      !.geo = l.geo, !.radius = l.radius,
                      !.flags = SetFlag(a.tmp.flags, location_flag_has_geo)]]
    ELSE IF p.geo_count > 1
    THEN IF FEq0(a.geo_p)
         THEN [a EXCEPT !.geo_p = FMul(l.radius, l.radius),
                        !.cart = transform_geo_to_cart(l.geo)]
         ELSE LET geo_k == KalmanGain(a.geo_p, l.radius)
              IN  [a EXCEPT !.geo_p = FMul(a.geo_p, FSub(F1, geo_k)),
                            !.cart = Blend(a.cart, transform_geo_to_cart(l.geo), geo_k)]
    ELSE a

\* speed part of one iteration
Pass2Speed(a, l, weight_i) ==
    [a EXCEPT !.speed_weight = FAdd(a.speed_weight, weight_i),
              !.tmp = [a.tmp EXCEPT !.speed = FAdd(a.tmp.speed, FMul(l.speed, weight_i))]]

\* bearing part of one iteration
Pass2Direction(a, l, p, weight_i) ==
    IF p.direction_count = 1
    THEN [a EXCEPT !.tmp = [a.tmp EXCEPT
                      !.direction = l.direction,
                      !.flags = SetFlag(a.tmp.flags, location_flag_has_direction)]]
    ELSE IF p.direction_count > 1
    THEN [a EXCEPT !.dirx = FAdd(a.dirx, FMul(weight_i, navit_cos(l.direction))),
                   !.diry = FAdd(a.diry, FMul(weight_i, navit_sin(l.direction)))]
    ELSE a

\* altitude part of one iteration
Pass2Height(a, l, weight_i) ==
    [a EXCEPT !.height_weight = FAdd(a.height_weight, weight_i),
              !.tmp = [a.tmp EXCEPT !.height = FAdd(a.tmp.height, FMul(l.height, weight_i))]]

\* faulty variant of Pass2Used: each satellite count is the largest seen
Pass2Used_largest(a, l, p) ==
    LET m == IF p.geo_count = 0 THEN MergeMeta(a.tmp, l) ELSE a.tmp
    IN  [a EXCEPT !.tmp =
            IF HasFlag(l.flags, location_flag_has_sat_data)
            THEN [m EXCEPT !.sats = IF l.sats > m.sats THEN l.sats ELSE m.sats,
                           !.sats_used = IF l.sats_used > m.sats_used
                                         THEN l.sats_used ELSE m.sats_used,
                           !.flags = SetFlag(m.flags, location_flag_has_sat_data)]
            ELSE m]

\* if (used) { ... }: metadata when no position exists, satellite data
Pass2Used(a, l, p) ==
    LET m == IF p.geo_count = 0 THEN MergeMeta(a.tmp, l) ELSE a.tmp
    IN  [a EXCEPT !.tmp =
            IF HasFlag(l.flags, location_flag_has_sat_data)
            THEN [m EXCEPT !.sats = l.sats, !.sats_used = l.sats_used,
                           !.flags = SetFlag(m.flags, location_flag_has_sat_data)]
            ELSE m]

\* one iteration of the second loop for raw entry l
Pass2Step(a, l, p) ==
    LET i_eplev == get_effective_preference_level(l.preference, l.valid)
        weight_i == FDiv(F1, l.radius)
        ug == Contributes(l, location_flag_has_geo, i_eplev, p.geo_eplev)
        us == Contributes(l, location_flag_has_speed, i_eplev, p.speed_eplev)
        ud == Contributes(l, location_flag_has_direction, i_eplev, p.direction_eplev)
        uh == Contributes(l, location_flag_has_height, i_eplev, p.height_eplev)
    IN  IF Ignored(i_eplev) THEN a
        ELSE
          Let(IF ug THEN Pass2Geo(a, l, p) ELSE a, LAMBDA a1 :
          Let(IF us THEN Pass2Speed(a1, l, weight_i) ELSE a1, LAMBDA a2 :
          Let(IF ud THEN Pass2Direction(a2, l, p, weight_i) ELSE a2, LAMBDA a3 :
          Let(IF uh THEN Pass2Height(a3, l, weight_i) ELSE a3, LAMBDA a4 :
            IF ug \/ us \/ ud \/ uh THEN Pass2Used(a4, l, p) ELSE a4))))

RECURSIVE Pass2From(_, _, _, _)
Pass2From(in, i, a, p) ==
    IF i > Len(in) THEN a ELSE Pass2From(in, i + 1, Pass2Step(a, in[i], p), p)

\* for (i = 0; in[i]; i++) of the second pass
Pass2(in, p) == Pass2From(in, 1, Pass2Init(p), p)

(***************************************************************************)
(* location_update, after the loops: the averages become tmp               *)
(***************************************************************************)
\* if (geo_count > 1) { ... }
FinishGeo(tmp, a, p) ==
    LET geo_len == FSqrt(FAdd(FAdd(FMul(a.cart[1], a.cart[1]),
                                   FMul(a.cart[2], a.cart[2])),
                              FMul(a.cart[3], a.cart[3])))
    IN  IF p.geo_count > 1 /\ FGt0(geo_len)
        THEN [tmp EXCEPT !.geo = transform_cart_to_geo(a.cart),
                         !.radius = FSqrt(a.geo_p),
                         !.flags = SetFlag(tmp.flags, location_flag_has_geo)]
        ELSE tmp

\* if (speed_weight != 0) { ... }
FinishSpeed(tmp, a) ==
    IF FNe0(a.speed_weight)
    THEN [tmp EXCEPT !.speed = FDiv(tmp.speed, a.speed_weight),
                     !.flags = SetFlag(tmp.flags, location_flag_has_speed)]
    ELSE tmp

\* dirx + dirx + diry + diry, the square of direction_weight
DirectionWeight2(dirx, diry) == FAdd(FAdd(dirx, dirx), FAdd(diry, diry))

\* if (direction_count > 1) { ... }
FinishDirection(tmp, a, p) ==
    LET w2 == DirectionWeight2(a.dirx, a.diry)
        direction_weight == FSqrt(w2)
    IN  IF p.direction_count > 1 /\ FGt0(direction_weight)
        THEN [tmp EXCEPT
                !.direction = IF FGe0(a.diry) THEN AcosRatio(a.dirx, w2)
                              ELSE F360Minus(AcosRatio(a.dirx, w2)),
                !.flags = SetFlag(tmp.flags, location_flag_has_direction)]
        ELSE tmp

\* if (height_weight != 0) { ... }
FinishHeight(tmp, a) ==
    IF FNe0(a.height_weight)
    THEN [tmp EXCEPT !.height = FDiv(tmp.height, a.height_weight),
                     !.flags = SetFlag(tmp.flags, location_flag_has_height)]
    ELSE tmp

\* tmp as it is when it is copied to out
Fused(in) ==
    Let(Pass1(in), LAMBDA p :
    Let(Pass2(in, p), LAMBDA a :
    Let(FinishGeo(a.tmp, a, p), LAMBDA t1 :
    Let(FinishSpeed(t1, a), LAMBDA t2 :
    Let(FinishDirection(t2, a, p), LAMBDA t3 :
        FinishHeight(t3, a))))))

(***************************************************************************)
(* location_update, copy of tmp to out and the callbacks                   *)
(***************************************************************************)
\* faulty variant of Changes: the position counts as changed on every pass
Changes_position_always(out, tmp) ==
    [valid |-> out.valid # tmp.valid,
     fix_type |-> out.fix_type # tmp.fix_type,
     qual |-> out.sats # tmp.sats,
     sats_used |-> out.sats_used # tmp.sats_used,
     coord_geo |-> TRUE]

\* the *_changed locals: which members of out differ from tmp
Changes(out, tmp) ==
    [valid |-> out.valid # tmp.valid,
     fix_type |-> out.fix_type # tmp.fix_type,
     qual |-> out.sats # tmp.sats,
     sats_used |-> out.sats_used # tmp.sats_used,
     coord_geo |-> out.geo # tmp.geo]

\* faulty variant of CopyOut: the validity is not copied
CopyOut_without_valid(out, tmp) ==
    [out EXCEPT !.geo = tmp.geo, !.speed = tmp.speed, !.direction = tmp.direction,
                !.height = tmp.height, !.radius = tmp.radius,
                !.fix_type = tmp.fix_type, !.fix_time = tmp.fix_time,
                !.sats = tmp.sats, !.sats_used = tmp.sats_used,
                !.flags = tmp.flags]

\* out after tmp has been copied to it (out->preference is not assigned)
CopyOut(out, tmp) ==
    [out EXCEPT !.geo = tmp.geo, !.speed = tmp.speed, !.direction = tmp.direction,
                !.height = tmp.height, !.radius = tmp.radius,
                !.fix_type = tmp.fix_type, !.fix_time = tmp.fix_time,
                !.sats = tmp.sats, !.sats_used = tmp.sats_used,
                !.valid = tmp.valid, !.flags = tmp.flags]

\* faulty variant of Callbacks: the position callback precedes the others
Callbacks_position_first(c, valid) ==
    (IF c.valid THEN <<"position_valid">> ELSE <<>>)
    \o (IF valid = attr_position_valid_invalid THEN <<>>
        ELSE (IF c.coord_geo THEN <<"position_coord_geo">> ELSE <<>>)
             \o (IF c.fix_type THEN <<"position_fix_type">> ELSE <<>>)
             \o (IF c.qual THEN <<"position_qual">> ELSE <<>>)
             \o (IF c.sats_used THEN <<"position_sats_used">> ELSE <<>>))

\* faulty variant of Callbacks: no early return when the result is invalid
Callbacks_without_return(c, valid) ==
    (IF c.valid THEN <<"position_valid">> ELSE <<>>)
    \o (IF c.fix_type THEN <<"position_fix_type">> ELSE <<>>)
    \o (IF c.qual THEN <<"position_qual">> ELSE <<>>)
    \o (IF c.sats_used THEN <<"position_sats_used">> ELSE <<>>)
    \o (IF c.coord_geo THEN <<"position_coord_geo">> ELSE <<>>)

\* the sequence of callback_list_call_attr_0 calls, given the change flags
\* and the new validity
Callbacks(c, valid) ==
    (IF c.valid THEN <<"position_valid">> ELSE <<>>)
    \o (IF valid = attr_position_valid_invalid THEN <<>>
        ELSE (IF c.fix_type THEN <<"position_fix_type">> ELSE <<>>)
             \o (IF c.qual THEN <<"position_qual">> ELSE <<>>)
             \o (IF c.sats_used THEN <<"position_sats_used">> ELSE <<>>)
             \o (IF c.coord_geo THEN <<"position_coord_geo">> ELSE <<>>))

\* location_update(in, out, cbl): the new out, the change flags and the
\* callbacks raised, in order
location_update(in, o) ==
    Let(Fused(in), LAMBDA tmp :
    Let(Changes(o, tmp), LAMBDA c :
        [out |-> CopyOut(o, tmp), changed |-> c, cbl |-> Callbacks(c, tmp.valid)]))

\* a statement of the end of location_update: the copy of a member of tmp
\* to out, a callback raised if a change flag is set, or the return on an
\* invalid result
Copy(member) == [kind |-> "copy", member |-> member, attr |-> ""]

Call(flag, attr) == [kind |-> "call", member |-> flag, attr |-> attr]

ReturnIfInvalid == [kind |-> "return", member |-> "valid", attr |-> ""]

\* an end of location_update that raises the callbacks before the flags
\* are copied
UpdateTail_flags_last ==
    <<Copy("geo"), Copy("speed"), Copy("direction"), Copy("height"),
      Copy("radius"), Copy("fix_type"), Copy("fix_time"), Copy("sats"),
      Copy("sats_used"), Copy("valid"),
      Call("valid", "position_valid"), ReturnIfInvalid,
      Call("fix_type", "position_fix_type"), Call("qual", "position_qual"),
      Call("sats_used", "position_sats_used"),
      Call("coord_geo", "position_coord_geo"), Copy("flags")>>

\* location.c:1153-1211, the statements of location_update from the copy of
\* tmp to out on, in the order of the source
UpdateTail ==
    <<Copy("geo"), Copy("speed"), Copy("direction"), Copy("height"),
      Copy("radius"), Copy("fix_type"), Copy("fix_time"), Copy("sats"),
      Copy("sats_used"), Copy("valid"), Copy("flags"),
      Call("valid", "position_valid"), ReturnIfInvalid,
      Call("fix_type", "position_fix_type"), Call("qual", "position_qual"),
      Call("sats_used", "position_sats_used"),
      Call("coord_geo", "position_coord_geo")>>

\* the statements from the k-th on, run on out as it is by then: out as they
\* leave it, and each callback raised with out as it was at that moment
RECURSIVE Notify(_, _, _, _, _, _)
Notify(stmts, k, o, tmp, c, calls) ==
    IF k > Len(stmts) THEN [out |-> o, seen |-> calls]
    ELSE
    LET s == stmts[k]
    IN  CASE s.kind = "copy" ->
               Notify(stmts, k + 1, [o EXCEPT ![s.member] = tmp[s.member]],
                      tmp, c, calls)
          [] s.kind = "call" ->
               Notify(stmts, k + 1, o, tmp, c,
                      IF c[s.member]
                      THEN Append(calls, [attr |-> s.attr, out |-> o])
                      ELSE calls)
          [] OTHER ->
               IF o.valid = attr_position_valid_invalid
               THEN [out |-> o, seen |-> calls]
               ELSE Notify(stmts, k + 1, o, tmp, c, calls)

\* the callbacks of one pass of location_update on the raw set in, each
\* with the fused location as it was when the callback was raised
Notified(in, o) ==
    Let(Fused(in), LAMBDA tmp :
        Notify(UpdateTail, 1, o, tmp, Changes(o, tmp), <<>>).seen)

(***************************************************************************)
(* The fixes the producers report                                          *)
(***************************************************************************)
\* a satellite fix: position, accuracy, speed and satellite data
GpsFix(preference, valid) ==
    location_set_validity(location_set_preference(
      location_set_fix_time(location_set_fix_type(
        location_set_sat_data(location_set_speed(
          location_set_position_accuracy(
            location_set_position(location_new, <<0, 1, 0>>), 1),
          Q(36, 1)), 7, 5),
        1), Timeval(2, 0)),
      preference), valid)

\* a network fix: position, accuracy, altitude and bearing
NetworkFix(preference, valid) ==
    location_set_validity(location_set_preference(
      location_set_fix_time(
        location_set_bearing(location_set_altitude(
          location_set_position_accuracy(
            location_set_position(location_new, <<0, 0, 1>>), 2),
          Q(100, 1)), Q(90, 1)),
        Timeval(1, 0)),
      preference), valid)

\* an inertial fix: accuracy, speed and bearing, no position
InertialFix(preference, valid) ==
    location_set_validity(location_set_preference(
      location_set_fix_time(location_set_fix_type(
        location_set_bearing(location_set_speed(
          location_set_position_accuracy(location_new, 2),
          Q(72, 1)), Q(270, 1)),
        2), Timeval(3, 0)),
      preference), valid)

\* a speed sensor: speed only, no accuracy was ever set
SpeedFix(preference, valid) ==
    location_set_validity(location_set_preference(
      location_set_fix_time(location_set_speed(location_new, Q(18, 1)), Timeval(1, 500)),
      preference), valid)

\* preference and validity of the fixes of the fusion specification
Qualities ==
    {<<preference_high, attr_position_valid_valid>>,
     <<preference_medium, attr_position_valid_static>>,
     <<preference_high, attr_position_valid_extrapolated_spatial>>}

Fixes ==
    {location_new, GpsFix(preference_high, attr_position_valid_invalid)}
    \cup {GpsFix(q[1], q[2]) : q \in Qualities}
    \cup {NetworkFix(q[1], q[2]) : q \in Qualities}
    \cup {InertialFix(q[1], q[2]) : q \in Qualities}
    \cup {SpeedFix(q[1], q[2]) : q \in Qualities}

(***************************************************************************)
(* State                                                                   *)
(***************************************************************************)
VARIABLES
    raw_loc,      \* the raw locations, one slot per producer (the array in)
    out,          \* the fused location
    cbl,          \* callbacks raised by the latest pass, in order
    changed,      \* the *_changed flags of the latest pass
    i_eplev,      \* effective preference level of each raw entry, latest pass
    repeated,     \* the latest pass read the same raw set as the pass before
    navit,        \* the navit object location_extrapolate reads: route and profile
    aspeed,       \* the presumed speed passed to location_extrapolate (0: infer)
    ex_in,        \* the previous location passed to location_extrapolate (in)
    ex_out,       \* the location location_extrapolate writes (out)
    alias,        \* in and out of location_extrapolate are the same location
    tv_now,       \* the system time, as gettimeofday returns it
    ret,          \* what the latest call of location_extrapolate returned
    called,       \* "idle", or how the latest call ended: "returned", "crashed", ...
    w_pc,         \* the fix a producer thread is half way through storing
    r_pc,         \* where the thread of location_update is: "idle", "between"
    read1,        \* the raw set as the first loop of location_update read it
    read2,        \* the raw set as the second loop of location_update read it
    raw_ptr,      \* the pointer array of the raw set: TRUE a location, FALSE NULL
    scan,         \* how far the latest loop over the pointer array went
    this_,        \* a location its owner works on through the accessors
    this_old,     \* that location before the latest accessor call
    op,           \* the latest accessor call or callback: name, attribute, argument
    maps,         \* the maps of a mapset, in the order of its list
    rw_lock,      \* how many read locks are held on the lock of the mapset
    search,       \* a struct mapset_search on the mapset
    got,          \* how the latest mapset_search_get_item ended, and its result
    seen,         \* what each callback of the latest pass of location_update saw
    priv,         \* struct traffic_priv of the TraFF HTTP plugin: queue, lock, event
    pc,           \* where the main thread and the worker thread of the plugin are
    ev,           \* the wait of the worker on the queue event, and any misuse
    deadline,     \* the latest thread_event_wait: time of entry, msec, deadline
    live          \* temporary locations allocated and not released, up to MaxLive

\* the variables of the fusion
fvars == <<raw_loc, out, cbl, changed, i_eplev, repeated>>

\* the variables of the extrapolation
xvars == <<navit, aspeed, ex_in, ex_out, alias, tv_now, ret, called>>

\* the variables of the threads
tvars == <<w_pc, r_pc, read1, read2>>

\* the variables of the pointer array
avars == <<raw_ptr, scan>>

\* the variables of the accessors
svars == <<this_, this_old, op>>

\* the variables of the mapset search
mvars == <<maps, rw_lock, search, got>>

\* the variables of the TraFF HTTP plugin and of the event it waits on
hvars == <<priv, pc, ev, deadline>>

vars == <<raw_loc, out, cbl, changed, i_eplev, repeated,
          navit, aspeed, ex_in, ex_out, alias, tv_now, ret, called,
          w_pc, r_pc, read1, read2, raw_ptr, scan, this_, this_old, op,
          maps, rw_lock, search, got, seen, priv, pc, ev, deadline, live>>

Slots == 1..NumSlots

NoChanges ==
    [valid |-> FALSE, fix_type |-> FALSE, qual |-> FALSE,
     sats_used |-> FALSE, coord_geo |-> FALSE]

\* no vehicle profile: navit_get_vehicleprofile returns NULL
NullProfile == [maxspeed_handling |-> "NULL", roadprofiles |-> [t \in {} |-> 0]]

\* no navit object: location_extrapolate is called with navit = NULL
NoNavit == [access |-> "no_navit", items |-> <<>>, vp |-> NullProfile]

\* no loop has run over the pointer array
NoScan == [visited |-> 0, overrun |-> FALSE, crashed |-> FALSE]

\* a pointer array as location_update expects it: one location per slot,
\* then the NULL that ends it
InitArray ==
    /\ raw_ptr = [k \in 1..(NumSlots + 1) |-> k <= NumSlots]
    /\ scan = NoScan

\* thread_event_wait has not been called
NoWait == [tp |-> Timeval(0, 0), msec |-> 0, ts |-> [tv_sec |-> 0, tv_nsec |-> 0]]

\* traffic_traff_http.c:624-633, traffic_traff_http_new: an empty queue, a
\* new lock and a new event, not exiting; the worker thread has been
\* started and the main thread is in its message loop
InitTraff ==
    /\ priv = [queue |-> 0, queue_lock |-> "free", queue_event |-> "new",
               exiting |-> FALSE]
    /\ pc = [main |-> "idle", worker |-> "top"]
    /\ ev = [waiting |-> FALSE, signalled |-> FALSE, stale |-> FALSE,
             ended |-> "none", misuse |-> "none"]
    /\ deadline = NoWait

\* no accessor has been called
NoCall == [name |-> "none", attr |-> "none", value |-> 0]

\* a new location nobody has touched
InitLocation ==
    /\ this_ = location_new
    /\ this_old = location_new
    /\ op = NoCall

\* this_->ms == NULL: no map search is open
NoMapSearch == [open |-> FALSE, left |-> <<>>]

\* mapset.c:337-350, mapset_search_new on a mapset: g_new0 and the reference
\* to the mapset; country_search is what the type of search_attr says
mapset_search_new(country_search) ==
    [map |-> 0, ms |-> NoMapSearch, mapset |-> TRUE,
     country_search |-> country_search]

\* mapset_search_get_item has not been called
NotSearched == [ret |-> 0, called |-> "idle"]

\* an empty mapset nobody holds, and a new search on it
InitMapset ==
    /\ maps = <<>>
    /\ rw_lock = 0
    /\ search = mapset_search_new(FALSE)
    /\ got = NotSearched

\* no producer is storing a fix
NoWrite == [slot |-> 0, fix |-> location_new]

\* no thread is inside a producer or inside location_update
InitThreads ==
    /\ w_pc = NoWrite
    /\ r_pc = "idle"
    /\ read1 = [i \in Slots |-> location_new]
    /\ read2 = [i \in Slots |-> location_new]

\* the fusion before its first pass
InitFusion ==
    /\ raw_loc = [i \in Slots |-> location_new]
    /\ out = location_new
    /\ cbl = <<>>
    /\ changed = NoChanges
    /\ i_eplev = [i \in Slots |-> 0 - INT_MAX]
    /\ repeated = FALSE
    /\ seen = <<>>
    /\ live = 0

Init ==
    /\ InitFusion
    /\ navit = NoNavit
    /\ aspeed = 0
    /\ ex_in = location_new
    /\ ex_out = location_new
    /\ alias = FALSE
    /\ tv_now = Timeval(0, 0)
    /\ ret = 0
    /\ called = "idle"
    /\ InitThreads
    /\ InitArray
    /\ InitLocation
    /\ InitTraff
    /\ InitMapset

\* how many live temporary locations are told apart
MaxLive == 2

\* location.c:985, tmp = g_new0(struct location, 1): one more temporary
\* location is live; the count stops at MaxLive
Allocated(n) == IF n < MaxLive THEN n + 1 ELSE n

\* one call of location_update on the raw set in
Update(in) ==
    \E r \in {location_update(in, out)} :
        /\ out' = r.out
        /\ cbl' = r.cbl
        /\ changed' = r.changed
        /\ seen' = Notified(in, out)
        /\ live' = Allocated(live)
        /\ i_eplev' = [i \in Slots |->
                         get_effective_preference_level(in[i].preference, in[i].valid)]

\* producer i stores fix f in its slot and runs the fusion
ReportFix(i, f) ==
    /\ raw_loc' = [raw_loc EXCEPT ![i] = f]
    /\ Update(raw_loc')
    /\ repeated' = (raw_loc' = raw_loc)
    /\ UNCHANGED xvars
    /\ UNCHANGED tvars
    /\ UNCHANGED avars
    /\ UNCHANGED svars
    /\ UNCHANGED mvars
    /\ UNCHANGED hvars

\* the periodic timer runs the fusion on the raw set as it is
TimerUpdate ==
    /\ raw_loc' = raw_loc
    /\ Update(raw_loc)
    /\ repeated' = TRUE
    /\ UNCHANGED xvars
    /\ UNCHANGED tvars
    /\ UNCHANGED avars
    /\ UNCHANGED svars
    /\ UNCHANGED mvars
    /\ UNCHANGED hvars

Next ==
    \/ \E i \in Slots, f \in Fixes : ReportFix(i, f)
    \/ TimerUpdate

Spec == Init /\ [][Next]_vars

(***************************************************************************)
(* Vocabulary of the properties                                            *)
(***************************************************************************)
\* effective preference level of a location
eplev(l) == get_effective_preference_level(l.preference, l.valid)

\* the attribute groups whose contributors are chosen by preference level
AttrFlags ==
    {location_flag_has_geo, location_flag_has_speed,
     location_flag_has_direction, location_flag_has_height}

\* l is not invalid and supplies the attribute group of flag
Supplies(l, flag) == l.valid # attr_position_valid_invalid /\ HasFlag(l.flags, flag)

\* l has the highest effective preference level among the entries of in
\* that supply the attribute group of flag
IsWinner(in, l, flag) ==
    /\ Supplies(l, flag)
    /\ \A j \in DOMAIN in : Supplies(in[j], flag) => eplev(in[j]) <= eplev(l)

\* the entries of in that win the attribute group of flag, in order
WinnersOf(in, flag) == SelectSeq(in, LAMBDA l : IsWinner(in, l, flag))

\* presence and value of an attribute group of a location
AttrOf(loc, flag) ==
    CASE flag = location_flag_has_geo ->
           <<HasFlag(loc.flags, flag), loc.geo, loc.radius>>
      [] flag = location_flag_has_speed -> <<HasFlag(loc.flags, flag), loc.speed>>
      [] flag = location_flag_has_direction ->
           <<HasFlag(loc.flags, flag), loc.direction>>
      [] OTHER -> <<HasFlag(loc.flags, flag), loc.height>>

\* the raw entries that are not invalid
Live(in) == {i \in DOMAIN in : in[i].valid # attr_position_valid_invalid}

(***************************************************************************)
(* C1: when exactly one raw entry is not invalid, the fused location       *)
(* equals that entry on every attribute group the entry supplies and on    *)
(* fix type, fix time, validity and preference.                            *)
(***************************************************************************)
C1_SingleSourceIdentity ==
    \A i \in Slots :
        Live(raw_loc) = {i} =>
            LET l == raw_loc[i]
            IN  /\ location_has_position(l) => out.geo = l.geo
                /\ location_has_position_accuracy(l) => out.radius = l.radius
                /\ location_has_speed(l) => out.speed = l.speed
                /\ location_has_bearing(l) => out.direction = l.direction
                /\ location_has_altitude(l) => out.height = l.height
                /\ location_has_sat_data(l) =>
                       out.sats = l.sats /\ out.sats_used = l.sats_used
                /\ out.fix_type = l.fix_type
                /\ out.fix_time = l.fix_time
                /\ out.valid = l.valid
                /\ out.preference = l.preference

\* C1 restricted to the preference: the part that fails for every source
C1_PreferenceCopied ==
    \A i \in Slots : Live(raw_loc) = {i} => out.preference = raw_loc[i].preference

C3_Sticky ==
    [][\A flag \in AttrFlags :
           (\A i \in Slots : ~Supplies(raw_loc'[i], flag))
               => AttrOf(out', flag) = AttrOf(out, flag)]_vars

(***************************************************************************)
(* C4: when the fused validity after a pass is not invalid, the pass       *)
(* raises one notification for each of validity, fix type, satellite       *)
(* count, satellites used and position whose fused value it changed, none  *)
(* for the others, in that order; speed, bearing and altitude raise none.  *)
(***************************************************************************)
CallbackOrder ==
    <<"position_valid", "position_fix_type", "position_qual",
      "position_sats_used", "position_coord_geo">>

\* the member of a location a notification reports
Watched(loc, a) ==
    CASE a = "position_valid" -> <<loc.valid>>
      [] a = "position_fix_type" -> <<loc.fix_type>>
      [] a = "position_qual" -> <<loc.sats>>
      [] a = "position_sats_used" -> <<loc.sats_used>>
      [] OTHER -> loc.geo

\* the notifications due when the fused location goes from o to n
Due(o, n) == SelectSeq(CallbackOrder, LAMBDA a : Watched(o, a) # Watched(n, a))

\* C4: a pass ending not invalid raises exactly the notifications due, in order
C4_NotifyChanges ==
    [][out'.valid # attr_position_valid_invalid => cbl' = Due(out, out')]_vars

\* a pass that changed all five and raised the five notifications in order
C4_Witness ==
    /\ out.valid # attr_position_valid_invalid
    /\ cbl = CallbackOrder
    /\ \A a \in DOMAIN changed : changed[a]

(***************************************************************************)
(* C5: when the fused validity after a pass is invalid, the pass raises    *)
(* the validity notification if the validity changed and nothing else,     *)
(* whatever else changed.                                                  *)
(***************************************************************************)
C5_InvalidSuppresses ==
    out.valid = attr_position_valid_invalid =>
        cbl = IF changed.valid THEN <<"position_valid">> ELSE <<>>

\* the result became invalid and position, fix type and satellite data
\* changed in the same pass
C5_Witness ==
    /\ out.valid = attr_position_valid_invalid
    /\ changed.valid /\ changed.coord_geo /\ changed.fix_type
    /\ changed.qual /\ changed.sats_used
    /\ cbl = <<"position_valid">>

(***************************************************************************)
(* C6: a pass over the raw set the pass before has read raises no          *)
(* notification and leaves the fused location as it is.                    *)
(***************************************************************************)
C6_SecondPassSilent ==
    [][raw_loc' = raw_loc /\ repeated' => cbl' = <<>> /\ out' = out]_vars

\* a repeated pass over a raw set that fuses to a valid position
C6_Witness ==
    /\ repeated
    /\ out.valid = attr_position_valid_valid
    /\ location_has_position(out)
    /\ out.geo # GeoZero
    /\ cbl = <<>>

(***************************************************************************)
(* C7: from a zeroed fused location, a raw set whose only entry that is    *)
(* not invalid is valid and has a position other than the fused one makes  *)
(* the fused validity valid, copies the position and raises the validity   *)
(* notification and then the position notification.                        *)
(***************************************************************************)
C7_FirstFix ==
    [][\A i \in Slots :
           /\ out = location_new
           /\ Live(raw_loc') = {i}
           /\ raw_loc'[i].valid = attr_position_valid_valid
           /\ location_has_position(raw_loc'[i])
           /\ raw_loc'[i].geo # out.geo
           => /\ out'.valid = attr_position_valid_valid
              /\ out'.geo = raw_loc'[i].geo
              /\ SelectSeq(cbl', LAMBDA a : a \in {"position_valid", "position_coord_geo"})
                   = <<"position_valid", "position_coord_geo">>]_vars

\* the network fix alone, valid: exactly the two notifications
C7_Witness ==
    /\ \E i \in Slots :
           /\ Live(raw_loc) = {i}
           /\ raw_loc[i].valid = attr_position_valid_valid
           /\ location_has_position(raw_loc[i])
           /\ out.geo = raw_loc[i].geo
    /\ out.valid = attr_position_valid_valid
    /\ out.geo # GeoZero
    /\ cbl = <<"position_valid", "position_coord_geo">>

(***************************************************************************)
(* Fusion over every combination of preference and validity                *)
(***************************************************************************)
\* a producer reports a satellite fix of any preference and validity
NextEplev ==
    \/ \E i \in Slots, p \in Preferences, v \in Validities : ReportFix(i, GpsFix(p, v))
    \/ TimerUpdate

SpecEplev == Init /\ [][NextEplev]_vars

(***************************************************************************)
(* C8: the effective preference level is -INT_MAX for an invalid location, *)
(* the preference for a valid or static one, the preference minus one for  *)
(* a spatially extrapolated one and the preference minus two for every     *)
(* other validity.                                                         *)
(***************************************************************************)
C8_EplevTable ==
    \A i \in Slots :
        LET p == raw_loc[i].preference
            v == raw_loc[i].valid
        IN  /\ v = attr_position_valid_invalid => i_eplev[i] = 0 - INT_MAX
            /\ v \in {attr_position_valid_valid, attr_position_valid_static}
                   => i_eplev[i] = p
            /\ v = attr_position_valid_extrapolated_spatial => i_eplev[i] = p - 1
            /\ v \notin {attr_position_valid_invalid, attr_position_valid_valid,
                         attr_position_valid_static,
                         attr_position_valid_extrapolated_spatial}
                   => i_eplev[i] = p - 2

\* one entry extrapolated by time and one extrapolated spatially, of the
\* same preference, one level apart
C8_Witness ==
    \E i, j \in Slots :
        /\ raw_loc[i].valid = attr_position_valid_extrapolated_time
        /\ raw_loc[j].valid = attr_position_valid_extrapolated_spatial
        /\ raw_loc[i].preference = preference_medium
        /\ raw_loc[j].preference = preference_medium
        /\ i_eplev[i] = preference_medium - 2
        /\ i_eplev[j] = preference_medium - 1

(***************************************************************************)
(* C9: an invalid location has a lower effective preference level than     *)
(* every location that is not invalid, whatever the preferences.           *)
(***************************************************************************)
C9_InvalidLowest ==
    \A i, j \in Slots :
        /\ raw_loc[i].valid = attr_position_valid_invalid
        /\ raw_loc[j].valid # attr_position_valid_invalid
        => i_eplev[i] < i_eplev[j]

\* the closest case: an invalid entry of high preference next to an entry
\* of low preference extrapolated by time
C9_Witness ==
    \E i, j \in Slots :
        /\ raw_loc[i].valid = attr_position_valid_invalid
        /\ raw_loc[i].preference = preference_high
        /\ raw_loc[j].valid = attr_position_valid_extrapolated_time
        /\ raw_loc[j].preference = preference_low
        /\ i_eplev[j] = preference_low - 2
        /\ i_eplev[i] < i_eplev[j]

(***************************************************************************)
(* Fusion of positions of different accuracy                               *)
(***************************************************************************)
\* largest accuracy radius of the position fixes
MaxRadius == 3

\* the positions reported: lat 0 / lng 90 E, its antipode lat 0 / lng 90 W,
\* and the north pole
Points == {<<0, 1, 0>>, <<0, 0 - 1, 0>>, <<0, 0, 1>>}

\* a fix that has a position and its accuracy only
PositionFix(position, accuracy, preference) ==
    location_set_validity(location_set_preference(
      location_set_position_accuracy(
        location_set_position(location_new, position), accuracy),
      preference), attr_position_valid_valid)

PositionFixes ==
    {location_new, PositionFix(<<0, 0, 1>>, 1, preference_medium)}
    \cup {PositionFix(g, r, preference_high) : g \in Points, r \in 1..MaxRadius}

NextPos ==
    \/ \E i \in Slots, f \in PositionFixes : ReportFix(i, f)
    \/ TimerUpdate

SpecPos == Init /\ [][NextPos]_vars

Dot(a, b) == a[1] * b[1] + a[2] * b[2] + a[3] * b[3]

Cross(a, b) ==
    <<a[2] * b[3] - a[3] * b[2], a[3] * b[1] - a[1] * b[3], a[1] * b[2] - a[2] * b[1]>>

\* v lies strictly inside the shorter great-circle arc from a to b
StrictlyBetween(v, a, b) ==
    /\ Dot(v, Cross(a, b)) = 0
    /\ Dot(Cross(a, v), Cross(a, b)) > 0
    /\ Dot(Cross(v, b), Cross(a, b)) > 0

\* entries i and j are the only position winners, of the same preference
\* and validity, at different positions, i with the smaller positive radius
TwoWinners(i, j) ==
    /\ {k \in Slots : IsWinner(raw_loc, raw_loc[k], location_flag_has_geo)} = {i, j}
    /\ i # j
    /\ raw_loc[i].preference = raw_loc[j].preference
    /\ raw_loc[i].valid = raw_loc[j].valid
    /\ raw_loc[i].geo # raw_loc[j].geo
    /\ FGt0(raw_loc[i].radius)
    /\ FGt0(FSub(raw_loc[j].radius, raw_loc[i].radius))

Antipodal(a, b) == \A c \in 1..3 : a[c] + b[c] = 0

(***************************************************************************)
(* C10: with exactly two position winners of the same preference and       *)
(* validity, at different positions and with different positive accuracy   *)
(* radii, the fused position lies strictly between the two and closer to   *)
(* the one with the smaller radius.                                        *)
(***************************************************************************)
\* C10: the fused position of two winners of different radii lies strictly
\* between them, closer to the one of the smaller radius
C10_BetweenCloser ==
    \A i, j \in Slots :
        TwoWinners(i, j) =>
            /\ StrictlyBetween(out.geo, raw_loc[i].geo, raw_loc[j].geo)
            /\ Dot(out.geo, raw_loc[i].geo) > Dot(out.geo, raw_loc[j].geo)

\* C10 for positions that are not antipodes of each other
C10_BetweenCloserNotAntipodal ==
    \A i, j \in Slots :
        TwoWinners(i, j) /\ ~Antipodal(raw_loc[i].geo, raw_loc[j].geo) =>
            /\ StrictlyBetween(out.geo, raw_loc[i].geo, raw_loc[j].geo)
            /\ Dot(out.geo, raw_loc[i].geo) > Dot(out.geo, raw_loc[j].geo)

\* lat 0 / lng 90 E with radius 1 and the north pole with radius 2 fuse to
\* the direction (0, 4, 1)
C10_Witness ==
    \E i, j \in Slots :
        /\ TwoWinners(i, j)
        /\ raw_loc[i].geo = <<0, 1, 0>> /\ raw_loc[i].radius = Q(1, 1)
        /\ raw_loc[j].geo = <<0, 0, 1>> /\ raw_loc[j].radius = Q(2, 1)
        /\ out.geo = <<0, 4, 1>>
        /\ location_has_position(out)

(***************************************************************************)
(* C11: the fused speed is the mean of the speeds of the speed winners,    *)
(* each weighted by 1 / its accuracy radius, and the fused altitude is the *)
(* same mean over the altitude winners; with one winner the result is that *)
(* winner's value.                                                         *)
(***************************************************************************)
\* value of the attribute group of flag (speed or altitude) of a location
ValueOf(l, flag) == IF flag = location_flag_has_speed THEN l.speed ELSE l.height

RECURSIVE WeightedSum(_, _, _)
\* sum over w[k..] of value / radius
WeightedSum(w, k, flag) ==
    IF k > Len(w) THEN F0
    ELSE FAdd(FDiv(ValueOf(w[k], flag), w[k].radius), WeightedSum(w, k + 1, flag))

RECURSIVE WeightSum(_, _)
\* sum over w[k..] of 1 / radius
WeightSum(w, k) ==
    IF k > Len(w) THEN F0 ELSE FAdd(FDiv(F1, w[k].radius), WeightSum(w, k + 1))

\* the mean of the values of w weighted by 1 / radius; one entry is its own mean
WeightedMean(w, flag) ==
    IF Len(w) = 1 THEN ValueOf(w[1], flag)
    ELSE FDiv(WeightedSum(w, 1, flag), WeightSum(w, 1))

\* C11: fused speed and altitude are the means weighted by 1 / radius
C11_WeightedMean ==
    \A flag \in {location_flag_has_speed, location_flag_has_height} :
        LET w == WinnersOf(raw_loc, flag)
        IN  Len(w) > 0 => ValueOf(out, flag) = WeightedMean(w, flag)

\* C11 for winners that all have an accuracy radius greater than zero
C11_WeightedMeanPositiveRadii ==
    \A flag \in {location_flag_has_speed, location_flag_has_height} :
        LET w == WinnersOf(raw_loc, flag)
        IN  Len(w) > 0 /\ (\A k \in 1..Len(w) : FGt0(w[k].radius))
                => ValueOf(out, flag) = WeightedMean(w, flag)

\* two speed winners of radius 1 and 2 and speeds 36 and 72 fuse to 48
C11_TwoWinners ==
    /\ Len(WinnersOf(raw_loc, location_flag_has_speed)) = 2
    /\ out.speed = Q(48, 1)

(***************************************************************************)
(* C12: with two or more bearing winners the bearing update is skipped if  *)
(* and only if the sum of the vectors (w cos b, w sin b), w = 1 / radius,  *)
(* is the zero vector; bearings that do not cancel fuse to a bearing in    *)
(* [0, 360), never NaN.                                                    *)
(***************************************************************************)
RECURSIVE DirSum(_, _)
\* the sum over w[k..] of (cos, sin) of the bearing, weighted by 1 / radius
DirSum(w, k) ==
    IF k > Len(w) THEN <<F0, F0>>
    ELSE LET rest == DirSum(w, k + 1)
             weight == FDiv(F1, w[k].radius)
         IN  <<FAdd(FMul(weight, navit_cos(w[k].direction)), rest[1]),
               FAdd(FMul(weight, navit_sin(w[k].direction)), rest[2])>>

\* a bearing in [0, 360): a finite number in that range, an arc cosine
\* (0..180), or 360 minus an arc cosine other than acos(1)
InBearingRange(b) ==
    CASE b.k = "num" -> b.d # 0 /\ b.n >= 0 /\ b.n < 360 * b.d
      [] b.k = "acos" -> TRUE
      [] b.k = "360-acos" -> ~(b.n = b.d)
      [] OTHER -> FALSE

\* C12: the bearing update is skipped exactly when the weighted vector sum
\* is zero, and is a bearing in [0, 360) otherwise
C12_BearingSkipIffCancel ==
    LET w == WinnersOf(raw_loc, location_flag_has_direction)
    IN  Len(w) >= 2 =>
            /\ (DirSum(w, 1) = <<F0, F0>>) <=> ~location_has_bearing(out)
            /\ DirSum(w, 1) # <<F0, F0>> => InBearingRange(out.direction)

\* bearings 90 and 270 of equal weight: the update is skipped, no NaN
C12_AntipodalSkipped ==
    LET w == WinnersOf(raw_loc, location_flag_has_direction)
    IN  /\ Len(w) = 2
        /\ w[1].direction # w[2].direction
        /\ DirSum(w, 1) = <<F0, F0>>
        /\ ~location_has_bearing(out)
        /\ out.direction = F0

(***************************************************************************)
(* C13: when the winning positions cancel each other (the aggregate        *)
(* Cartesian vector has length zero) the pass skips the position update:   *)
(* the fused position keeps its value and no position notification is      *)
(* raised.                                                                 *)
(***************************************************************************)
\* two or more positions win and their aggregate vector is the zero vector
PositionsCancel(in) ==
    /\ Len(WinnersOf(in, location_flag_has_geo)) >= 2
    /\ Pass2(in, Pass1(in)).cart = <<F0, F0, F0>>

\* C13: a pass over cancelling positions keeps the fused position and
\* raises no position notification
C13_CancelKeepsPosition ==
    [][PositionsCancel(raw_loc') =>
           /\ out'.geo = out.geo
           /\ \A k \in 1..Len(cbl') : cbl'[k] # "position_coord_geo"]_vars

\* a pass over cancelling positions has run and raised the position callback
C13_CancelNotified ==
    /\ PositionsCancel(raw_loc)
    /\ out.geo = GeoZero
    /\ ~location_has_position(out)
    /\ changed.coord_geo
    /\ \E k \in 1..Len(cbl) : cbl[k] = "position_coord_geo"

(***************************************************************************)
(* C14: fix type, fix time, validity and preference of the fused location  *)
(* are the maximum fix type, the latest fix time, the best validity and    *)
(* the highest preference of the position winners or, when no entry wins   *)
(* the position, of the entries that win at least one attribute.           *)
(***************************************************************************)
\* the slots whose entry wins the attribute group of flag
WinnerSlots(in, flag) == {i \in DOMAIN in : IsWinner(in, in[i], flag)}

\* the slots the metadata is derived from
MetaSlots(in) ==
    IF WinnerSlots(in, location_flag_has_geo) # {}
    THEN WinnerSlots(in, location_flag_has_geo)
    ELSE UNION {WinnerSlots(in, flag) : flag \in AttrFlags}

\* C14 without the preference: fix type, fix time and validity
C14_MetaExceptPreference ==
    LET m == MetaSlots(raw_loc)
    IN  m # {} =>
            /\ \E i \in m : out.fix_type = raw_loc[i].fix_type
            /\ \A i \in m : out.fix_type >= raw_loc[i].fix_type
            /\ \E i \in m : out.fix_time = raw_loc[i].fix_time
            /\ \A i \in m : ~TimerGt(raw_loc[i].fix_time, out.fix_time)
            /\ \E i \in m : out.valid = raw_loc[i].valid
            /\ \A i \in m : attr_position_valid_comp(raw_loc[i].valid, out.valid) <= 0

\* C14: the four metadata values, the preference included
C14_Meta ==
    LET m == MetaSlots(raw_loc)
    IN  m # {} =>
            /\ C14_MetaExceptPreference
            /\ \E i \in m : out.preference = raw_loc[i].preference
            /\ \A i \in m : out.preference >= raw_loc[i].preference

(***************************************************************************)
(* Fusion of satellite data                                                *)
(***************************************************************************)
\* a fix with position, accuracy and satellite data, taken at second sec
SatFix(sats, sats_used, sec, preference) ==
    location_set_validity(location_set_preference(
      location_set_fix_time(
        location_set_sat_data(
          location_set_position_accuracy(
            location_set_position(location_new, <<0, 1, 0>>), 1),
          sats, sats_used),
        Timeval(sec, 0)),
      preference), attr_position_valid_valid)

\* satellite data and nothing else
SatOnly(sats, sats_used, sec) ==
    location_set_validity(location_set_preference(
      location_set_fix_time(location_set_sat_data(location_new, sats, sats_used),
                            Timeval(sec, 0)),
      preference_high), attr_position_valid_valid)

SatFixes ==
    {location_new, PositionFix(<<0, 0, 1>>, 1, preference_high),
     SatOnly(11, 3, 2), SatFix(8, 6, 2, preference_medium)}
    \cup {SatFix(c[1], c[2], sec, preference_high) :
            c \in {<<7, 5>>, <<9, 4>>}, sec \in 1..2}

NextSat ==
    \/ \E i \in Slots, f \in SatFixes : ReportFix(i, f)
    \/ TimerUpdate

SpecSat == Init /\ [][NextSat]_vars

\* the slots of the entries that win an attribute and carry satellite data
SatSlots(in) ==
    {i \in UNION {WinnerSlots(in, flag) : flag \in AttrFlags} :
        location_has_sat_data(in[i])}

DEMO_ACCURACY == 3

OFFROAD_SPEED == 5

\* integer division of C: the quotient is truncated towards zero
CDiv(a, b) == Sgn(a) * Sgn(b) * (Abs(a) \div Abs(b))

\* a coordinate of the map projection
Coord(x, y) == [x |-> x, y |-> y]

\* projection_mg to geographic: the direction of the point on the tangent
\* plane at latitude 0, longitude 0, one unit of the direction per
\* MgScale map units
MgScale == 1000

transform_to_geo(c) ==
    Let(Gcd(MgScale, Gcd(Abs(c.x), Abs(c.y))),
        LAMBDA g : <<MgScale \div g, c.x \div g, c.y \div g>>)

\* the length of the straight line from c1 to c2, in metres
transform_distance(c1, c2) ==
    ISqrt((c2.x - c1.x) * (c2.x - c1.x) + (c2.y - c1.y) * (c2.y - c1.y))

\* the compass bearing of the line from c1 to c2, in degrees
transform_get_angle_delta(c1, c2) ==
    CASE c2.x = c1.x /\ c2.y >= c1.y -> Q(0, 1)
      [] c2.y = c1.y /\ c2.x > c1.x -> Q(90, 1)
      [] c2.x = c1.x /\ c2.y < c1.y -> Q(180, 1)
      [] c2.y = c1.y /\ c2.x < c1.x -> Q(270, 1)
      [] OTHER -> [k |-> "atan2", n |-> c2.x - c1.x, d |-> c2.y - c1.y]

\* an item of the route map: its type, its coordinates, its maxspeed
\* attribute (0: none) and its street item ("none": no attribute, "NULL":
\* an attribute without an item, else the type of the street item)
Item(type, coords, maxspeed, sitem) ==
    [type |-> type, coords |-> coords, maxspeed |-> maxspeed, sitem |-> sitem]

\* a vehicle profile: how it handles maxspeed, and the route_weight of its
\* roadprofile for each street type it has one for
Vehicleprofile(maxspeed_handling, roadprofiles) ==
    [maxspeed_handling |-> maxspeed_handling, roadprofiles |-> roadprofiles]

\* vehicleprofile_get_roadprofile(vp, type)->route_weight, 0 without roadprofile
route_weight(vp, type) ==
    IF type \in DOMAIN vp.roadprofiles THEN vp.roadprofiles[type] ELSE 0

\* what location_extrapolate hands back: the return value, the location
\* out, and whether the call returned at all
Returned(r, o) == [ret |-> r, out |-> o, called |-> "returned"]

Crashed(o) == [ret |-> 0, out |-> o, called |-> "crashed"]

\* the call ends in a division by zero (location.c:881, 893-894)
DividedByZero(o) == [ret |-> 0, out |-> o, called |-> "divided by zero"]

\* location.c:784, the time between the two timestamps in tenths of a second
Timespan(tv_old, tv_new) ==
    (tv_new.tv_sec - tv_old.tv_sec) * 10
        + CDiv(tv_new.tv_usec - tv_old.tv_usec + 50000, 100000)

\* a timespan that is rejected without the strict test: only negative ones
TooEarly_negative(timespan) == timespan < 0

\* location.c:786, no time has passed since the previous fix
TooEarly(timespan) == timespan <= 0

\* location.c:847-858, the speed the vehicle profile gives for the item
VehicleSpeed(item, vp) ==
    IF vp # NullProfile /\ vp.maxspeed_handling # "maxspeed_ignore"
    THEN IF item.sitem \notin {"none", "NULL"}
         THEN route_weight(vp, item.sitem)
         ELSE 0
    ELSE 0

\* the speed on the item without the fallback to OFFROAD_SPEED: an item
\* without maxspeed on a road without a road profile has speed 0
SimSpeed_no_offroad(item, vp, deref) ==
    IF item.maxspeed = 0 THEN VehicleSpeed(item, vp)
    ELSE IF vp = NullProfile /\ deref = "crash" THEN 0 - 1
    ELSE item.maxspeed

\* location.c:846-874, the speed on the item when no speed is presumed;
\* -1 stands for the read of vp->maxspeed_handling through a NULL vp
\* (location.c:869), whose outcome deref decides: "crash", or one of the
\* two branches
SimSpeed(item, vp, deref) ==
    LET vehicle_speed == VehicleSpeed(item, vp)
        item_speed == item.maxspeed
        lesser == IF vehicle_speed < item_speed THEN vehicle_speed
                  ELSE item_speed
        sim_speed ==
            IF item_speed = 0 THEN vehicle_speed
            ELSE IF vp = NullProfile
                 THEN CASE deref = "crash" -> 0 - 1
                        [] deref = "enforce" -> item_speed
                        [] OTHER -> lesser
                 ELSE IF vp.maxspeed_handling = "maxspeed_enforce"
                      THEN item_speed
                      ELSE lesser
    IN  IF sim_speed = 0 THEN OFFROAD_SPEED ELSE sim_speed

\* a stop at the end of the segment whatever time is left
Interpolate_endpoint(pos, c, timespan, stime) == c

\* location.c:889-895, the point reached on the segment from pos to c after
\* timespan of the stime the segment takes
Interpolate(pos, c, timespan, stime) ==
    Coord(pos.x + CDiv((c.x - pos.x) * timespan, stime),
          pos.y + CDiv((c.y - pos.y) * timespan, stime))

\* location.c:906-914, what is written once the new position ci is known
Arrive(o, ci, tv_new) ==
    location_set_validity(
        location_set_fix_time(
            location_set_position_accuracy(
                location_set_position(o, transform_to_geo(ci)),
                DEMO_ACCURACY),
            tv_new),
        attr_position_valid_valid)

\* location.c:831-926, the walk along the route from pos: k is the item,
\* j the number of its coordinates already read, timespan the time left
RECURSIVE Walk(_, _, _, _, _, _, _, _, _, _)
Walk(items, k, j, pos, timespan, sim_speed0, vp, o, tv_new, deref) ==
    IF k > Len(items) THEN Returned(1, o)
    ELSE IF j >= Len(items[k].coords)
    THEN Walk(items, k + 1, 0, pos, timespan, sim_speed0, vp, o, tv_new, deref)
    ELSE
    LET item == items[k]
        c == item.coords[j + 1]
        sim_speed == IF sim_speed0 = 0 THEN SimSpeed(item, vp, deref)
                     ELSE sim_speed0
    IN  IF sim_speed < 0 THEN Crashed(o)
        ELSE IF sim_speed = 0 THEN DividedByZero(o)
        ELSE
        LET slen == transform_distance(pos, c)
            stime == (slen * 36) \div sim_speed
            more == j + 1 < Len(item.coords) \/ k < Len(items)
            ci == Interpolate(pos, c, timespan, stime)
        IN  IF stime < timespan
            THEN Walk(items, k, j + 1, c, timespan - stime, sim_speed0, vp, o,
                      tv_new, deref)
            ELSE IF more /\ stime = 0 THEN DividedByZero(o)
            ELSE IF more
            THEN Returned(1,
                     Arrive(location_set_speed(
                                location_set_bearing(o,
                                    transform_get_angle_delta(pos, c)),
                                Q(sim_speed, 1)),
                            ci, tv_new))
            ELSE Returned(1, Arrive(location_set_speed(o, F0), pos, tv_new))

\* location.c:813-816, the first item from k on that is a street of the
\* route, Len(items) + 1 if there is none
RECURSIVE SkipToStreet(_, _)
SkipToStreet(items, k) ==
    IF k <= Len(items) /\ items[k].type # "type_street_route"
    THEN SkipToStreet(items, k + 1)
    ELSE k

\* location.c:717-931
location_extrapolate(in, o, nav, speed, tv_new, deref) ==
    IF in.fix_time.tv_sec = 0 /\ in.fix_time.tv_usec = 0 THEN Returned(0, o)
    ELSE IF TooEarly(Timespan(in.fix_time, tv_new)) THEN Returned(0, o)
    ELSE IF nav.access # "ok" \/ Len(nav.items) = 0 THEN Returned(0, o)
    ELSE
    LET items == nav.items
        j1 == IF Len(items[1].coords) >= 1 THEN 1 ELSE 0
        k2 == IF items[1].type = "type_route_start" THEN 2 ELSE 1
        k3 == SkipToStreet(items, k2)
        j3 == IF k3 = 1 THEN j1 ELSE 0
    IN  IF k3 <= Len(items) /\ j3 < Len(items[k3].coords)
        THEN Walk(items, k3, j3 + 1, items[k3].coords[j3 + 1],
                  Timespan(in.fix_time, tv_new), speed, nav.vp, o, tv_new,
                  deref)
        ELSE Returned(1, o)

(***************************************************************************)
(* The extrapolation as a state machine: a caller holds the previous       *)
(* location and calls location_extrapolate as time passes.                  *)
(***************************************************************************)

\* how long the clock runs, in seconds
MaxElapsed == 3

\* the clock advances in steps of half a second
TickUsec == 500000

StartTime == Timeval(100, 0)

StartPoint == Coord(10, 10)

Corner == Coord(20, 10)

StreetEnd == Coord(20, 20)

Destination == Coord(23, 24)

\* a route of two streets with the same attributes, from the route start
\* to the destination next to the end of the second street
RouteItems(maxspeed, sitem) ==
    << Item("type_route_start", <<StartPoint>>, 0, "none"),
       Item("type_street_route", <<StartPoint, Corner>>, maxspeed, sitem),
       Item("type_street_route", <<Corner, StreetEnd>>, maxspeed, sitem),
       Item("type_route_end", <<Destination>>, 0, "none") >>

\* the vehicle profiles: one for each way to handle maxspeed, and none
Vehicleprofiles ==
    { Vehicleprofile(h, [t \in {"street_1"} |-> 72]) :
          h \in {"maxspeed_enforce", "maxspeed_restrict", "maxspeed_ignore"} }
        \cup {NullProfile}

Navit(access, items, vp) == [access |-> access, items |-> items, vp |-> vp]

\* routes along streets, for every vehicle profile
StreetNavits ==
    { Navit("ok", RouteItems(m, t), vp) :
          m \in {0, 36}, t \in {"street_1", "none"}, vp \in Vehicleprofiles }

\* a route of a single street that the route map hands out first
SingleStreet ==
    << Item("type_street_route", <<StartPoint, Corner, StreetEnd>>, 0,
            "street_1") >>

\* routes on which no first position is found: no street item, a street
\* item without coordinates, or one whose only coordinate is read before
\* the walk (location.c:800)
NoStreetRoutes ==
    { << Item("type_route_start", <<StartPoint>>, 0, "none") >>,
      << Item("type_route_start", <<StartPoint>>, 0, "none"),
         Item("type_route_end", <<Destination>>, 0, "none") >>,
      << Item("type_route_start", <<StartPoint>>, 0, "none"),
         Item("type_street_route", <<>>, 0, "street_1") >>,
      << Item("type_street_route", <<StartPoint>>, 0, "street_1") >> }

OtherNavits ==
    { Navit(a, <<>>, NullProfile) :
          a \in {"no_navit", "no_route", "no_route_map", "no_map_rect", "ok"} }
        \cup { Navit("ok", r, NullProfile) : r \in NoStreetRoutes \cup {SingleStreet} }

Navits == StreetNavits \cup OtherNavits

\* the presumed speeds: none, and 36 km/h
Speeds == {0, 36}

\* the previous location: a valid fix at the start of the route, taken at
\* StartTime or carrying the zero fix time of a location never set
Previous ==
    { location_set_fix_time(
          location_set_validity(
              location_set_position(location_new, transform_to_geo(StartPoint)),
              attr_position_valid_valid),
          t) : t \in {StartTime, Timeval(0, 0)} }

\* the location out when it is not in: another place, heading south
OutBefore ==
    location_set_bearing(
        location_set_position(location_new, transform_to_geo(Coord(50, 50))),
        Q(180, 1))

\* the outcomes of reading through a NULL vehicle profile
Derefs == {"crash", "enforce", "lesser"}

InitExtrapolate ==
    /\ InitFusion
    /\ navit \in Navits
    /\ aspeed \in Speeds
    /\ ex_in \in Previous
    /\ alias \in BOOLEAN
    /\ ex_out = IF alias THEN ex_in ELSE OutBefore
    /\ tv_now = StartTime
    /\ ret = 0
    /\ called = "idle"
    /\ InitThreads
    /\ InitArray
    /\ InitLocation
    /\ InitTraff
    /\ InitMapset

\* time passes
Tick ==
    /\ tv_now.tv_sec - StartTime.tv_sec < MaxElapsed
    /\ tv_now' = IF tv_now.tv_usec + TickUsec >= 1000000
                 THEN Timeval(tv_now.tv_sec + 1,
                              tv_now.tv_usec + TickUsec - 1000000)
                 ELSE Timeval(tv_now.tv_sec, tv_now.tv_usec + TickUsec)
    /\ UNCHANGED <<navit, aspeed, ex_in, ex_out, alias, ret, called>>
    /\ UNCHANGED fvars
    /\ UNCHANGED tvars
    /\ UNCHANGED avars
    /\ UNCHANGED svars
    /\ UNCHANGED mvars
    /\ UNCHANGED hvars
    /\ UNCHANGED live
    /\ UNCHANGED seen

\* the caller calls location_extrapolate(in, out, navit, aspeed, 0)
Extrapolate ==
    /\ called \notin {"crashed", "divided by zero"}
    /\ \E deref \in Derefs :
         \E r \in {location_extrapolate(ex_in, ex_out, navit, aspeed, tv_now,
                                        deref)} :
            /\ ex_out' = r.out
            /\ ex_in' = IF alias THEN r.out ELSE ex_in
            /\ ret' = r.ret
            /\ called' = r.called
    /\ UNCHANGED <<navit, aspeed, alias, tv_now>>
    /\ UNCHANGED fvars
    /\ UNCHANGED tvars
    /\ UNCHANGED avars
    /\ UNCHANGED svars
    /\ UNCHANGED mvars
    /\ UNCHANGED hvars
    /\ UNCHANGED live
    /\ UNCHANGED seen

NextExtrapolate == Tick \/ Extrapolate

SpecExtrapolate == InitExtrapolate /\ [][NextExtrapolate]_vars

(***************************************************************************)
(* Claims about location_extrapolate                                        *)
(***************************************************************************)

\* the previous location carries the zero fix time
ZeroFixTime(l) == l.fix_time.tv_sec = 0 /\ l.fix_time.tv_usec = 0

\* the route has no street item with coordinates
NoStreetGeometry(nav) ==
    ~ \E k \in 1..Len(nav.items) :
          /\ nav.items[k].type = "type_street_route"
          /\ Len(nav.items[k].coords) >= 1

\* no route, no route map, no items, or no street with coordinates
NoWalkableGeometry(nav) ==
    nav.access # "ok" \/ Len(nav.items) = 0 \/ NoStreetGeometry(nav)

\* C16: a call with the zero fix time in the previous location, or with a
\* route that has no walkable street geometry, returns false and leaves the
\* location out as it was.
C16_FailureWithoutGeometry ==
    [][ (Extrapolate /\ (ZeroFixTime(ex_in) \/ NoWalkableGeometry(navit)))
            => (called' = "returned" /\ ret' = 0 /\ ex_out' = ex_out) ]_vars

\* where the walk starts: the item and the number of its coordinates read
\* when the first position has been taken; k = 0 if there is no such item
WalkStart(items) ==
    IF Len(items) = 0 THEN [k |-> 0, j |-> 0]
    ELSE LET first == IF items[1].type = "type_route_start" THEN 2 ELSE 1
             street == SkipToStreet(items, first)
             read == IF street = 1 /\ Len(items[1].coords) >= 1 THEN 1 ELSE 0
         IN  IF street <= Len(items) /\ read < Len(items[street].coords)
             THEN [k |-> street, j |-> read + 1]
             ELSE [k |-> 0, j |-> 0]

\* the call walks the route: the fix time is set, time has passed and the
\* route has a first position
Walks(in, nav, tv_new) ==
    /\ ~ ZeroFixTime(in)
    /\ Timespan(in.fix_time, tv_new) > 0
    /\ nav.access = "ok"
    /\ WalkStart(nav.items).k > 0

\* the speed on every item is defined: one is presumed, or there is a
\* vehicle profile, or no item has a maxspeed
SpeedDefined(nav, speed) ==
    \/ speed # 0
    \/ nav.vp # NullProfile
    \/ \A k \in 1..Len(nav.items) : nav.items[k].maxspeed = 0

\* the speed on an item
SpeedOn(item, nav, speed) ==
    IF speed # 0 THEN speed ELSE SimSpeed(item, nav.vp, "crash")

\* the time the segment from pos to c of an item takes, in tenths of a second
SegmentTime(item, pos, c, nav, speed) ==
    (transform_distance(pos, c) * 36) \div SpeedOn(item, nav, speed)

\* the time the rest of the route takes from pos, in tenths of a second
RECURSIVE RouteTime(_, _, _, _, _)
RouteTime(nav, k, j, pos, speed) ==
    IF k > Len(nav.items) THEN 0
    ELSE IF j >= Len(nav.items[k].coords)
    THEN RouteTime(nav, k + 1, 0, pos, speed)
    ELSE SegmentTime(nav.items[k], pos, nav.items[k].coords[j + 1], nav, speed)
             + RouteTime(nav, k, j + 1, nav.items[k].coords[j + 1], speed)

\* the time the whole route takes
TotalTime(nav, speed) ==
    LET s == WalkStart(nav.items)
    IN  RouteTime(nav, s.k, s.j, nav.items[s.k].coords[s.j], speed)

\* the last coordinate of the route
RECURSIVE FinalPointFrom(_, _)
FinalPointFrom(items, k) ==
    IF Len(items[k].coords) > 0 \/ k = 1
    THEN items[k].coords[Len(items[k].coords)]
    ELSE FinalPointFrom(items, k - 1)

FinalPoint(nav) == FinalPointFrom(nav.items, Len(nav.items))

\* C17: when the time to cover exceeds the time the whole remaining route
\* takes, the call returns true with the position of out at the final point
\* of the route and the speed of out set to 0.
C17_PastTheEnd ==
    [][ (/\ Extrapolate
         /\ Walks(ex_in, navit, tv_now)
         /\ SpeedDefined(navit, aspeed)
         /\ Timespan(ex_in.fix_time, tv_now) > TotalTime(navit, aspeed))
            => (/\ called' = "returned"
                /\ ret' = 1
                /\ ex_out'.geo = transform_to_geo(FinalPoint(navit))
                /\ location_has_speed(ex_out')
                /\ ex_out'.speed = F0) ]_vars

\* the call is made with a fix time and no time passed since (zero tenths)
ZeroElapsed == ~ ZeroFixTime(ex_in) /\ Timespan(ex_in.fix_time, tv_now) = 0

\* C18 as stated: with zero tenths of a second elapsed since the previous
\* fix, the position of out after the call is the position of in.
C18_ZeroElapsedInputPosition ==
    [][ (Extrapolate /\ ZeroElapsed) => ex_out'.geo = ex_in.geo ]_vars

\* C18 amended: with zero tenths of a second elapsed since the previous
\* fix, the call returns false and leaves out unmodified; the position of
\* out is the position of in when out is in or held that position before.
C18_ZeroElapsedUnmodified ==
    [][ (Extrapolate /\ ZeroElapsed)
            => (/\ called' = "returned"
                /\ ret' = 0
                /\ ex_out' = ex_out
                /\ (alias \/ ex_out.geo = ex_in.geo) => ex_out'.geo = ex_in.geo)
      ]_vars

\* a call over a route with streets, made at the fix time of in, has
\* returned; out is another location than in and is as it was
C18_Witness ==
    /\ called = "returned"
    /\ ZeroElapsed
    /\ tv_now = StartTime
    /\ navit.access = "ok"
    /\ WalkStart(navit.items).k > 0
    /\ ~ alias
    /\ ret = 0
    /\ ex_out = OutBefore
    /\ ex_out.geo # ex_in.geo

\* the segment the walk stops on: segments that take less than the time
\* left are consumed and the walk goes on from their end; on the first
\* segment that takes at least the time left, P is its start, C its end, t
\* the time left, T the time it takes, item its item, and last tells that
\* nothing follows C.  k = 0: the route ends first.
RECURSIVE StopSegment(_, _, _, _, _, _)
StopSegment(nav, k, j, pos, t, speed) ==
    IF k > Len(nav.items)
    THEN [k |-> 0, P |-> pos, C |-> pos, t |-> t, T |-> 0, last |-> TRUE]
    ELSE IF j >= Len(nav.items[k].coords)
    THEN StopSegment(nav, k + 1, 0, pos, t, speed)
    ELSE LET c == nav.items[k].coords[j + 1]
             T == SegmentTime(nav.items[k], pos, c, nav, speed)
         IN  IF T < t
             THEN StopSegment(nav, k, j + 1, c, t - T, speed)
             ELSE [k |-> k, P |-> pos, C |-> c, t |-> t, T |-> T,
                   last |-> (j + 1 = Len(nav.items[k].coords)
                                /\ k = Len(nav.items))]

\* the segment a call made now stops on
StopNow ==
    LET s == WalkStart(navit.items)
    IN  StopSegment(navit, s.k, s.j, navit.items[s.k].coords[s.j],
                    Timespan(ex_in.fix_time, tv_now), aspeed)

\* the call walks the route and stops on a segment of it
StopsOnSegment ==
    /\ Walks(ex_in, navit, tv_now)
    /\ SpeedDefined(navit, aspeed)
    /\ StopNow.k > 0

\* P + (C - P) * t / T, in the integers of the coordinates
LinearPoint(s) ==
    Coord(s.P.x + CDiv((s.C.x - s.P.x) * s.t, s.T),
          s.P.y + CDiv((s.C.y - s.P.y) * s.t, s.T))

\* c lies on the segment from a to b (the segments are axis-parallel or c
\* is tested by the cross product)
OnSegment(a, c, b) ==
    /\ (b.x - a.x) * (c.y - a.y) = (b.y - a.y) * (c.x - a.x)
    /\ (c.x - a.x) * (c.x - b.x) <= 0
    /\ (c.y - a.y) * (c.y - b.y) <= 0

WeightOf(item, vp) ==
    IF item.sitem \notin {"none", "NULL"} THEN route_weight(vp, item.sitem)
    ELSE 0

\* the speed on an item as the policies are described: the posted maximum
\* under "enforce", the lesser of weight and maximum under "restrict"
\* (prefer lower), the weight under "ignore", the weight without a posted
\* maximum, and the off-road speed only if neither is known
PolicySpeed(item, vp) ==
    LET weight == WeightOf(item, vp)
        maximum == item.maxspeed
        speed ==
            CASE vp.maxspeed_handling = "maxspeed_ignore" -> weight
              [] maximum = 0 -> weight
              [] weight = 0 -> maximum
              [] vp.maxspeed_handling = "maxspeed_enforce" -> maximum
              [] OTHER -> IF weight < maximum THEN weight ELSE maximum
    IN  IF weight = 0 /\ maximum = 0 THEN OFFROAD_SPEED ELSE speed

\* C20: without a presumed speed, a call that stops on a segment with the
\* vehicle moving has given it the speed of the policy of the vehicle
\* profile, and that speed is greater than zero.
C20_SpeedPolicy ==
    [][ (/\ Extrapolate
         /\ aspeed = 0
         /\ navit.vp # NullProfile
         /\ StopsOnSegment
         /\ ~ StopNow.last)
            => (/\ called' = "returned"
                /\ ex_out'.speed
                       = Q(PolicySpeed(navit.items[StopNow.k], navit.vp), 1)
                /\ FGt0(ex_out'.speed)) ]_vars

\* the stamp of a new location: a position, the accuracy DEMO_ACCURACY, the
\* fix time tv and the validity valid
Stamped(l, tv) ==
    /\ location_has_position(l)
    /\ location_has_position_accuracy(l)
    /\ l.radius = Q(DEMO_ACCURACY, 1)
    /\ l.fix_time = tv
    /\ l.valid = attr_position_valid_valid

\* C21: whenever a call of location_extrapolate returns true, out carries a
\* position, the accuracy DEMO_ACCURACY, the time of the call as fix time
\* and the validity valid.
C21_SuccessIsStamped ==
    [][ (Extrapolate /\ called' = "returned" /\ ret' = 1)
            => Stamped(ex_out', tv_now) ]_vars

\* C22: a call that stops part-way along a segment gives out the bearing of
\* the segment and the resolved speed; a call that stops at the final stop
\* with speed 0 leaves out without a bearing, whatever out held before.
C22_BearingOfTheStop ==
    [][ (Extrapolate /\ StopsOnSegment)
            => LET s == StopNow
               IN  /\ called' = "returned"
                   /\ ~ s.last =>
                        /\ location_has_bearing(ex_out')
                        /\ ex_out'.direction
                               = transform_get_angle_delta(s.P, s.C)
                        /\ location_has_speed(ex_out')
                        /\ ex_out'.speed
                               = Q(SpeedOn(navit.items[s.k], navit, aspeed), 1)
                   /\ s.last =>
                        /\ location_has_speed(ex_out')
                        /\ ex_out'.speed = F0
                        /\ ~ location_has_bearing(ex_out') ]_vars

(***************************************************************************)
(* Producers and location_update on different threads.  Neither the        *)
(* position callback nor location_update takes a lock, so the steps of a   *)
(* producer storing a fix and the two loops of location_update interleave  *)
(* freely.                                                                  *)
(***************************************************************************)

\* the slot of the producer that runs on its own thread (raw_index_gps)
ThreadSlots == {1}

\* a fix as the position callback stores it: position, accuracy and speed
ThreadFix(position, accuracy, speed, sec) ==
    location_set_validity(location_set_fix_time(
      location_set_speed(
        location_set_position_accuracy(
          location_set_position(location_new, position), accuracy),
        Q(speed, 1)),
      Timeval(sec, 0)), attr_position_valid_valid)

ThreadFixes ==
    { ThreadFix(<<0, 1, 0>>, 1, 36, 1), ThreadFix(<<0, 0, 1>>, 2, 72, 2) }

\* vehicle_android.c:297-320, the first stores of the position callback:
\* fix time, presence bits and position
StoreHead(l, f) ==
    [l EXCEPT !.fix_time = f.fix_time, !.flags = f.flags, !.geo = f.geo]

\* vehicle_android.c:321-328, the later stores of the position callback:
\* speed, bearing, altitude, accuracy and validity
StoreTail(l, f) ==
    [l EXCEPT !.speed = f.speed, !.direction = f.direction,
              !.height = f.height, !.radius = f.radius, !.valid = f.valid]

\* tmp as it is copied to out when the first loop has read in1 and the
\* second loop in2
FusedFrom(in1, in2) ==
    Let(Pass1(in1), LAMBDA p :
    Let(Pass2(in2, p), LAMBDA a :
    Let(FinishGeo(a.tmp, a, p), LAMBDA t1 :
    Let(FinishSpeed(t1, a), LAMBDA t2 :
    Let(FinishDirection(t2, a, p), LAMBDA t3 :
        FinishHeight(t3, a))))))

\* the producer thread begins to store fix f in slot i
WriteHead(i, f) ==
    /\ w_pc = NoWrite
    /\ raw_loc' = [raw_loc EXCEPT ![i] = StoreHead(raw_loc[i], f)]
    /\ w_pc' = [slot |-> i, fix |-> f]
    /\ UNCHANGED <<out, cbl, changed, i_eplev, repeated, r_pc, read1, read2>>
    /\ UNCHANGED xvars
    /\ UNCHANGED avars
    /\ UNCHANGED svars
    /\ UNCHANGED mvars
    /\ UNCHANGED hvars
    /\ UNCHANGED live
    /\ UNCHANGED seen

\* the producer thread stores the rest of the fix
WriteTail ==
    /\ w_pc # NoWrite
    /\ raw_loc' = [raw_loc EXCEPT
                     ![w_pc.slot] = StoreTail(raw_loc[w_pc.slot], w_pc.fix)]
    /\ w_pc' = NoWrite
    /\ UNCHANGED <<out, cbl, changed, i_eplev, repeated, r_pc, read1, read2>>
    /\ UNCHANGED xvars
    /\ UNCHANGED avars
    /\ UNCHANGED svars
    /\ UNCHANGED mvars
    /\ UNCHANGED hvars
    /\ UNCHANGED live
    /\ UNCHANGED seen

\* location.c:997-1036, the first loop of location_update reads the raw set
FirstPass ==
    /\ r_pc = "idle"
    /\ read1' = raw_loc
    /\ r_pc' = "between"
    /\ live' = Allocated(live)
    /\ UNCHANGED <<raw_loc, out, cbl, changed, i_eplev, repeated, w_pc, read2>>
    /\ UNCHANGED xvars
    /\ UNCHANGED avars
    /\ UNCHANGED svars
    /\ UNCHANGED mvars
    /\ UNCHANGED hvars
    /\ UNCHANGED seen

\* location.c:1040-1212, the second loop reads the raw set again, and the
\* result is copied to out
SecondPass ==
    /\ r_pc = "between"
    /\ read2' = raw_loc
    /\ r_pc' = "idle"
    /\ \E tmp \in {FusedFrom(read1, raw_loc)} :
         \E c \in {Changes(out, tmp)} :
            /\ out' = CopyOut(out, tmp)
            /\ changed' = c
            /\ cbl' = Callbacks(c, tmp.valid)
            /\ seen' = Notify(UpdateTail, 1, out, tmp, c, <<>>).seen
    /\ i_eplev' = [i \in Slots |->
                     get_effective_preference_level(raw_loc[i].preference,
                                                    raw_loc[i].valid)]
    /\ repeated' = FALSE
    /\ UNCHANGED <<raw_loc, w_pc, read1>>
    /\ UNCHANGED xvars
    /\ UNCHANGED avars
    /\ UNCHANGED svars
    /\ UNCHANGED mvars
    /\ UNCHANGED hvars
    /\ UNCHANGED live

NextThreads ==
    \/ \E i \in ThreadSlots, f \in ThreadFixes : WriteHead(i, f)
    \/ WriteTail
    \/ FirstPass
    \/ SecondPass

SpecThreads == Init /\ [][NextThreads]_vars

\* a raw entry that is entirely one fix: the empty location of the start
\* or one of the fixes stored
Whole(l) == l \in {location_new} \cup ThreadFixes

\* C23: a pass of location_update never reads a torn raw entry: every entry
\* either loop read is entirely the old or entirely the new fix, and both
\* loops read the same values.
C23_NoTornRead ==
    /\ \A i \in Slots : Whole(read1[i]) /\ Whole(read2[i])
    /\ r_pc = "idle" => read1 = read2

(***************************************************************************)
(* Claims about the raw set as location_update reads it                     *)
(***************************************************************************)

\* the raw set with the radius of entry i replaced by r
WithRadius(in, i, r) == [in EXCEPT ![i].radius = r]

\* the raw set with the speed, bearing and altitude of entry i replaced
WithValues(in, i, v) ==
    [in EXCEPT ![i].speed = v, ![i].direction = v, ![i].height = v]

\* values to put in the place of a field that is not supplied
OtherValues == {Q(1, 1), Q(5, 1)}

\* C24: location_update reads no field of a raw entry whose presence bit is
\* unset: the fused result does not depend on the value such a field holds;
\* in particular the radius of an entry without the radius bit has no part
\* in the weights.
C24_UnsetFieldsUnread ==
    \A i \in Slots, v \in OtherValues :
        /\ ~ location_has_position_accuracy(raw_loc[i])
              => Fused(WithRadius(raw_loc, i, v)) = Fused(raw_loc)
        /\ (/\ ~ location_has_speed(raw_loc[i])
            /\ ~ location_has_bearing(raw_loc[i])
            /\ ~ location_has_altitude(raw_loc[i]))
              => Fused(WithValues(raw_loc, i, v)) = Fused(raw_loc)

\* the fixes of producers that report an accuracy of 0 or of 1, through
\* location_set_position_accuracy and through the position callback
AccuracyFixes ==
    {location_new}
        \cup {PositionFix(g, r, preference_high) : g \in Points, r \in 0..1}
        \cup {ThreadFix(<<0, 1, 0>>, r, 36, 1) : r \in 0..1}

NextAccuracy ==
    \/ \E i \in Slots, f \in AccuracyFixes : ReportFix(i, f)
    \/ TimerUpdate

SpecAccuracy == Init /\ [][NextAccuracy]_vars

\* C25: no raw entry that takes part in a pass supplies an accuracy radius
\* of zero: the producers' ways of storing the accuracy reject or floor it.
C25_NoZeroRadius ==
    \A i \in Slots :
        (~ Ignored(eplev(raw_loc[i])) /\ location_has_position_accuracy(raw_loc[i]))
            => FNe0(raw_loc[i].radius)

(***************************************************************************)
(* The Android vehicle (vehicle_android.c): its raw set, its callbacks and *)
(* vehicle_android_update_position.                                         *)
(***************************************************************************)

RAW_LOCATIONS == 2

raw_index_gps == 1

raw_index_network == 2

\* the latest fix time a provider reports, in seconds
MaxFixTime == 2

\* a Location of the platform: provider, time, position and accuracy
AndroidLocation(provider, sec, position, accuracy) ==
    [provider |-> provider, sec |-> sec, position |-> position,
     accuracy |-> accuracy]

AndroidLocations ==
    { AndroidLocation(p, t, g, 1) :
          p \in {"gps", "network"}, t \in 1..MaxFixTime,
          g \in {<<0, 1, 0>>, <<0, 0, 1>>} }

\* vehicle_android.c:296-328, the stores of the position callback: the
\* Location has an accuracy and neither speed, bearing nor altitude
AndroidStore(l, loc) ==
    [l EXCEPT !.fix_time = Timeval(loc.sec, 0),
              !.flags = SetFlag(location_flag_has_geo, location_flag_has_radius),
              !.geo = loc.position,
              !.speed = F0,
              !.direction = F0,
              !.height = F0,
              !.radius = Q(loc.accuracy, 1),
              !.valid = attr_position_valid_valid]

\* what reading the pointer after the last one of the array gives: NULL,
\* or something that is no location
Beyonds == {"NULL", "crash"}

\* vehicle_android.c:231-235, for (i = 1; in[i]; i++): the test stores valid
\* in every entry it visits; the index of the entry chosen.  k counts from 1,
\* so in[i] of the code is entry i + 1.
RECURSIVE AndroidLoop(_, _, _, _)
AndroidLoop(ptr, in, k, index) ==
    IF k > Len(ptr) THEN [in |-> in, index |-> index, visited |-> k - 1,
                          overrun |-> TRUE]
    ELSE IF ~ ptr[k] THEN [in |-> in, index |-> index, visited |-> k - 1,
                           overrun |-> FALSE]
    ELSE LET in2 == [in EXCEPT ![k].valid = attr_position_valid_valid]
         IN  AndroidLoop(ptr, in2, k + 1,
                 IF TimerGt(in2[k].fix_time, in2[index].fix_time) THEN k
                 ELSE index)

\* vehicle_android.c:238-272, the copy of the chosen entry l to out and the
\* callbacks raised, in order
AndroidCopy(o, l) ==
    LET validity_changed == o.valid # l.valid
    IN  IF l.valid = attr_position_valid_invalid
        THEN [out |-> [o EXCEPT !.valid = l.valid],
              cbl |-> IF validity_changed THEN <<"position_valid">> ELSE <<>>]
        ELSE [out |-> [o EXCEPT !.valid = l.valid, !.geo = l.geo,
                                !.speed = l.speed, !.direction = l.direction,
                                !.height = l.height, !.radius = l.radius,
                                !.fix_type = l.fix_type,
                                !.fix_time = l.fix_time, !.sats = l.sats,
                                !.sats_used = l.sats_used, !.flags = l.flags],
              cbl |-> (IF o.fix_type # l.fix_type
                       THEN <<"position_fix_type">> ELSE <<>>)
                      \o (IF o.sats # l.sats
                          THEN <<"position_qual">> ELSE <<>>)
                      \o (IF o.sats_used # l.sats_used
                          THEN <<"position_sats_used">> ELSE <<>>)
                      \o (IF validity_changed
                          THEN <<"position_valid">> ELSE <<>>)
                      \o <<"position_coord_geo">>]

\* vehicle_android.c:225-273
vehicle_android_update_position(ptr, in, o, beyond) ==
    Let(AndroidLoop(ptr, in, raw_index_network, raw_index_gps), LAMBDA r :
        IF r.overrun /\ beyond = "crash"
        THEN [in |-> r.in, out |-> o, cbl |-> <<>>,
              scan |-> [visited |-> r.visited, overrun |-> TRUE,
                        crashed |-> TRUE]]
        ELSE Let(AndroidCopy(o, r.in[r.index]), LAMBDA c :
                 [in |-> r.in, out |-> c.out, cbl |-> c.cbl,
                  scan |-> [visited |-> r.visited, overrun |-> r.overrun,
                            crashed |-> FALSE]]))

\* vehicle_android.c:474-491, vehicle_android_new_android: the array of
\* RAW_LOCATIONS + 1 pointers, each set to a zeroed location
InitAndroid ==
    /\ raw_ptr = [k \in 1..(RAW_LOCATIONS + 1) |-> TRUE]
    /\ raw_loc = [k \in 1..(RAW_LOCATIONS + 1) |-> location_new]
    /\ scan = NoScan
    /\ out = location_new
    /\ cbl = <<>>
    /\ changed = NoChanges
    /\ i_eplev = [i \in Slots |-> 0 - INT_MAX]
    /\ repeated = FALSE
    /\ seen = <<>>
    /\ live = 0
    /\ navit = NoNavit
    /\ aspeed = 0
    /\ ex_in = location_new
    /\ ex_out = location_new
    /\ alias = FALSE
    /\ tv_now = Timeval(0, 0)
    /\ ret = 0
    /\ called = "idle"
    /\ InitThreads
    /\ InitLocation
    /\ InitTraff
    /\ InitMapset

\* what the callbacks of the Android vehicle leave alone
AndroidFrame ==
    /\ UNCHANGED <<changed, i_eplev, repeated, raw_ptr>>
    /\ UNCHANGED xvars
    /\ UNCHANGED tvars
    /\ UNCHANGED <<this_, this_old>>
    /\ UNCHANGED mvars
    /\ UNCHANGED hvars
    /\ UNCHANGED live
    /\ UNCHANGED seen

\* vehicle_android.c:285-332, vehicle_android_position_callback
PositionCallback(loc) ==
    /\ ~ scan.crashed
    /\ \E beyond \in Beyonds :
         \E r \in {vehicle_android_update_position(raw_ptr,
                       [raw_loc EXCEPT
                          ![IF loc.provider = "gps" THEN raw_index_gps
                            ELSE raw_index_network] =
                              AndroidStore(@, loc)],
                       out, beyond)} :
            /\ raw_loc' = r.in
            /\ out' = r.out
            /\ cbl' = r.cbl
            /\ scan' = r.scan
    /\ op' = [name |-> "position_callback", attr |-> loc.provider, value |-> 0]
    /\ AndroidFrame

\* vehicle_android.c:350-369, vehicle_android_status_callback
StatusCallback(sats_in_view, sats_used) ==
    /\ ~ scan.crashed
    /\ raw_loc' = [raw_loc EXCEPT
                     ![raw_index_gps] =
                         location_set_sat_data(@, sats_in_view, sats_used)]
    /\ op' = [name |-> "status_callback", attr |-> "gps", value |-> 0]
    /\ UNCHANGED <<out, cbl, scan>>
    /\ AndroidFrame

\* vehicle_android.c:383-401, vehicle_android_fix_callback
FixCallback(fix_type) ==
    /\ ~ scan.crashed
    /\ LET l == raw_loc[raw_index_gps]
           lost == fix_type = 0 /\ l.valid = attr_position_valid_valid
       IN  raw_loc' = [raw_loc EXCEPT
                         ![raw_index_gps] =
                             IF l.fix_type = fix_type THEN l
                             ELSE [l EXCEPT
                                     !.fix_type = fix_type,
                                     !.valid =
                                        IF lost
                                        THEN attr_position_valid_extrapolated_time
                                        ELSE l.valid]]
    /\ op' = [name |-> "fix_callback", attr |-> "gps", value |-> fix_type]
    /\ UNCHANGED <<out, cbl, scan>>
    /\ AndroidFrame

NextAndroid ==
    \/ \E loc \in AndroidLocations : PositionCallback(loc)
    \/ \E n \in {5, 7} : StatusCallback(n, n - 2)
    \/ \E fix_type \in {0, 1} : FixCallback(fix_type)

SpecAndroid == InitAndroid /\ [][NextAndroid]_vars

\* C26: the pointer array of the raw set holds a NULL inside the allocated
\* array, and the loop over it stops there, having visited the slots of the
\* producers and nothing else.
C26_SentinelInsideArray ==
    /\ \E k \in DOMAIN raw_ptr : ~ raw_ptr[k]
    /\ ~ scan.overrun
    /\ scan.visited <= RAW_LOCATIONS

(***************************************************************************)
(* Termination of the route walk.                                          *)
(***************************************************************************)

\* C27: every call of location_extrapolate runs to completion: whatever
\* the previous location, the route and the vehicle profile, the call
\* returns to its caller.
C27_RunsToCompletion ==
    [][ Extrapolate => called' = "returned" ]_vars


(***************************************************************************)
(* The accessors of struct location: the owner of a location sets and      *)
(* clears its optional attributes in any order.                            *)
(***************************************************************************)
location_clear_altitude(this) ==
    [this EXCEPT !.flags = ClearFlag(this.flags, location_flag_has_height)]

location_clear_bearing(this) ==
    [this EXCEPT !.flags = ClearFlag(this.flags, location_flag_has_direction)]

location_clear_position(this) ==
    [this EXCEPT !.flags = ClearFlag(this.flags, location_flag_has_geo)]

location_clear_position_accuracy(this) ==
    [this EXCEPT !.flags = ClearFlag(this.flags, location_flag_has_radius)]

location_clear_sat_data(this) ==
    [this EXCEPT !.flags = ClearFlag(this.flags, location_flag_has_sat_data)]

\* a clear that resets the whole flags member
location_clear_speed_all(this) == [this EXCEPT !.flags = 0]

location_clear_speed(this) ==
    [this EXCEPT !.flags = ClearFlag(this.flags, location_flag_has_speed)]

location_get_altitude(this) == this.height

location_get_bearing(this) == this.direction

location_get_position(this) == this.geo

\* the double radius returned as an int: truncated towards zero
location_get_position_accuracy(this) == CDiv(this.radius.n, this.radius.d)

location_get_sats(this) == this.sats

location_get_sats_used(this) == this.sats_used

location_get_speed(this) == this.speed

\* the arguments the owner passes to the setters
Positions == {GeoZero, <<1, 1, 0>>}

Accuracies == {0, 5}

SpeedValues == {F0, Q(36, 1)}

Bearings == {F0, Q(90, 1)}

Altitudes == {F0, Q(201, 2)}

SatData == {<<0, 0>>, <<7, 5>>}

\* what every accessor call leaves behind besides the location: the
\* location before it, and what was called
Called(name, attr, value) ==
    /\ this_old' = this_
    /\ op' = [name |-> name, attr |-> attr, value |-> value]
    /\ UNCHANGED fvars
    /\ UNCHANGED xvars
    /\ UNCHANGED tvars
    /\ UNCHANGED avars
    /\ UNCHANGED mvars
    /\ UNCHANGED hvars
    /\ UNCHANGED live
    /\ UNCHANGED seen

SetAltitude(altitude) ==
    /\ this_' = location_set_altitude(this_, altitude)
    /\ Called("set", "altitude", altitude)

SetBearing(bearing) ==
    /\ this_' = location_set_bearing(this_, bearing)
    /\ Called("set", "bearing", bearing)

SetPosition(position) ==
    /\ this_' = location_set_position(this_, position)
    /\ Called("set", "position", position)

SetPositionAccuracy(accuracy) ==
    /\ this_' = location_set_position_accuracy(this_, accuracy)
    /\ Called("set", "accuracy", accuracy)

SetSatData(sats, sats_used) ==
    /\ this_' = location_set_sat_data(this_, sats, sats_used)
    /\ Called("set", "sat_data", <<sats, sats_used>>)

SetSpeed(speed) ==
    /\ this_' = location_set_speed(this_, speed)
    /\ Called("set", "speed", speed)

ClearAltitude ==
    /\ this_' = location_clear_altitude(this_)
    /\ Called("clear", "altitude", 0)

ClearBearing ==
    /\ this_' = location_clear_bearing(this_)
    /\ Called("clear", "bearing", 0)

ClearPosition ==
    /\ this_' = location_clear_position(this_)
    /\ Called("clear", "position", 0)

ClearPositionAccuracy ==
    /\ this_' = location_clear_position_accuracy(this_)
    /\ Called("clear", "accuracy", 0)

ClearSatData ==
    /\ this_' = location_clear_sat_data(this_)
    /\ Called("clear", "sat_data", 0)

ClearSpeed ==
    /\ this_' = location_clear_speed(this_)
    /\ Called("clear", "speed", 0)

NextAccessors ==
    \/ \E altitude \in Altitudes : SetAltitude(altitude)
    \/ \E bearing \in Bearings : SetBearing(bearing)
    \/ \E position \in Positions : SetPosition(position)
    \/ \E accuracy \in Accuracies : SetPositionAccuracy(accuracy)
    \/ \E sd \in SatData : SetSatData(sd[1], sd[2])
    \/ \E speed \in SpeedValues : SetSpeed(speed)
    \/ ClearAltitude
    \/ ClearBearing
    \/ ClearPosition
    \/ ClearPositionAccuracy
    \/ ClearSatData
    \/ ClearSpeed

SpecAccessors == Init /\ [][NextAccessors]_vars

\* the optional attributes of a location
Attributes ==
    {"position", "accuracy", "speed", "bearing", "altitude", "sat_data"}

\* location_has_* of the attribute
Has(l, attr) ==
    CASE attr = "position" -> location_has_position(l)
      [] attr = "accuracy" -> location_has_position_accuracy(l)
      [] attr = "speed" -> location_has_speed(l)
      [] attr = "bearing" -> location_has_bearing(l)
      [] attr = "altitude" -> location_has_altitude(l)
      [] attr = "sat_data" -> location_has_sat_data(l)

\* location_get_* of the attribute
Get(l, attr) ==
    CASE attr = "position" -> location_get_position(l)
      [] attr = "accuracy" -> location_get_position_accuracy(l)
      [] attr = "speed" -> location_get_speed(l)
      [] attr = "bearing" -> location_get_bearing(l)
      [] attr = "altitude" -> location_get_altitude(l)
      [] attr = "sat_data" -> <<location_get_sats(l), location_get_sats_used(l)>>

\* C28: after a setter the matching location_has_* is true and the getter
\* returns the value just set; after a location_clear_* the matching
\* location_has_* is false; and the call leaves the presence bit and the
\* value of every other optional attribute as they were.
C28_AccessorsRoundTrip ==
    op # NoCall =>
        /\ op.name = "set" =>
              Has(this_, op.attr) /\ Get(this_, op.attr) = op.value
        /\ op.name = "clear" => ~ Has(this_, op.attr)
        /\ \A attr \in Attributes \ {op.attr} :
              /\ Has(this_, attr) = Has(this_old, attr)
              /\ Get(this_, attr) = Get(this_old, attr)

\* the speed of a location that has a position, an accuracy and a speed has
\* been cleared
C28_Witness ==
    /\ op.name = "clear"
    /\ op.attr = "speed"
    /\ location_has_speed(this_old)
    /\ location_has_position(this_old)
    /\ location_get_position_accuracy(this_old) = 5
    /\ location_has_position_accuracy(this_)


(***************************************************************************)
(* The search in a mapset: mapset_search_get_item walks the maps of the    *)
(* mapset under the read lock of the mapset.                               *)
(***************************************************************************)
\* how many maps a mapset holds at most
MaxMaps == 2

\* the values of an attribute that holds a flag, or is not there
Flags == {"unset", "false", "true"}

\* a map: the items a search in it finds, in order; its attributes
\* search_active and active; and whether it can be searched at all
Map(items, search_active, active, searchable) ==
    [items |-> items, search_active |-> search_active, active |-> active,
     searchable |-> searchable]

Maps ==
    {Map(items, search_active, active, searchable) :
        items \in {<<>>, <<1, 2>>}, search_active \in {"unset", "false"},
        active \in Flags, searchable \in BOOLEAN}

Mapsets == UNION {[1..n -> Maps] : n \in 0..MaxMaps}

\* map_search_new: a search that will find the items of the map, or NULL
map_search_new(m) ==
    IF m.searchable THEN [open |-> TRUE, left |-> m.items] ELSE NoMapSearch

\* mapset.c:377-401, the for (;;) loop: from the map of the search to the
\* next map to search, 0 when the list of maps is at its end
RECURSIVE NextMap(_, _, _)
NextMap(ml, map, country_search) ==
    LET n == IF map < Len(ml) THEN map + 1 ELSE 0
    IN  IF n = 0 THEN 0
        ELSE IF country_search THEN n
        ELSE IF ml[n].search_active = "false"
        THEN NextMap(ml, n, country_search)
        ELSE IF ml[n].active = "unset" THEN n
        ELSE IF ml[n].active = "true" THEN n
        ELSE NextMap(ml, n, country_search)

\* mapset.c:370-409, the while loop: the search as the loop leaves it, and
\* ret (0: NULL)
RECURSIVE SearchLoop(_, _)
SearchLoop(ml, s) ==
    IF ~ s.mapset THEN [search |-> s, ret |-> 0]
    ELSE IF s.ms.open /\ Len(s.ms.left) > 0
    THEN [search |-> [s EXCEPT !.ms = [open |-> TRUE, left |-> Tail(s.ms.left)]],
          ret |-> Head(s.ms.left)]
    ELSE IF s.map # 0 /\ s.country_search THEN [search |-> s, ret |-> 0]
    ELSE
    LET n == NextMap(ml, s.map, s.country_search)
    IN  IF n = 0
        THEN [search |-> [s EXCEPT !.map = 0, !.mapset = FALSE,
                                   !.ms = NoMapSearch],
              ret |-> 0]
        ELSE SearchLoop(ml, [s EXCEPT !.map = n, !.ms = map_search_new(ml[n])])

\* what this_->mapset->rw_lock does once this_->mapset is NULL: the read
\* through the NULL pointer ends the process, or it yields some pointer
\* that is no lock, on which the lock call fails and changes nothing
NullMapsets == {"crash", "no lock"}

\* mapset.c:363-412, mapset_search_get_item: the search and the lock of the
\* mapset as the call leaves them, ret, and whether the call returned
mapset_search_get_item(ml, s, lock, null_mapset) ==
    IF ~ s.mapset
    THEN IF null_mapset = "crash"
         THEN [search |-> s, lock |-> lock, ret |-> 0, called |-> "crashed"]
         ELSE [search |-> s, lock |-> lock, ret |-> 0, called |-> "returned"]
    ELSE
    LET acquired == lock + 1
        r == SearchLoop(ml, s)
    IN  IF r.search.mapset
        THEN [search |-> r.search, lock |-> acquired - 1, ret |-> r.ret,
              called |-> "returned"]
        ELSE IF null_mapset = "crash"
        THEN [search |-> r.search, lock |-> acquired, ret |-> r.ret,
              called |-> "crashed"]
        ELSE [search |-> r.search, lock |-> acquired, ret |-> r.ret,
              called |-> "returned"]

\* a mapset with its maps, and a new search on it
InitSearch ==
    /\ InitFusion
    /\ navit = NoNavit
    /\ aspeed = 0
    /\ ex_in = location_new
    /\ ex_out = location_new
    /\ alias = FALSE
    /\ tv_now = Timeval(0, 0)
    /\ ret = 0
    /\ called = "idle"
    /\ InitThreads
    /\ InitArray
    /\ InitLocation
    /\ InitTraff
    /\ maps \in Mapsets
    /\ rw_lock = 0
    /\ \E country_search \in BOOLEAN : search = mapset_search_new(country_search)
    /\ got = NotSearched

\* one call of mapset_search_get_item by the owner of the search
GetItem ==
    /\ got.called # "crashed"
    /\ \E null_mapset \in NullMapsets :
         \E r \in {mapset_search_get_item(maps, search, rw_lock, null_mapset)} :
            /\ search' = r.search
            /\ rw_lock' = r.lock
            /\ got' = [ret |-> r.ret, called |-> r.called]
    /\ UNCHANGED maps
    /\ UNCHANGED fvars
    /\ UNCHANGED xvars
    /\ UNCHANGED tvars
    /\ UNCHANGED avars
    /\ UNCHANGED svars
    /\ UNCHANGED seen
    /\ UNCHANGED hvars
    /\ UNCHANGED live

NextSearch == GetItem

SpecSearch == InitSearch /\ [][NextSearch]_vars

\* C29: every call of mapset_search_get_item returns, with an item of a map
\* or with NULL, and the read lock it acquired on the mapset is released
\* again when it returns: as many read locks are held as before the call.
C29_ReturnsUnlocked ==
    [][ GetItem =>
          /\ got'.called = "returned"
          /\ got'.ret \in {0, 1, 2}
          /\ rw_lock' = rw_lock ]_vars


(***************************************************************************)
(* What the callbacks of location_update observe.                          *)
(***************************************************************************)

\* C30: every callback raised by a pass of location_update is raised when
\* all members of the fused location already hold the values the pass
\* leaves them with: what each callback saw is the fused location as it is
\* after the pass.
C30_CallbacksSeeFinal ==
    /\ Len(seen) = Len(cbl)
    /\ \A k \in 1..Len(seen) : seen[k].attr = cbl[k] /\ seen[k].out = out

\* a pass that changed the validity and the position and more, and raised
\* callbacks for them
C30_Witness ==
    /\ Len(seen) >= 3
    /\ changed.valid
    /\ changed.coord_geo
    /\ location_has_position(out)
    /\ seen[Len(seen)].attr = "position_coord_geo"


(***************************************************************************)
(* The TraFF HTTP plugin: the main thread posts requests to the queue and  *)
(* shuts the plugin down, the worker thread takes requests from the queue  *)
(* and waits on the queue event between polls.                             *)
(***************************************************************************)
\* how many requests the main thread leaves in the queue at most
MaxQueue == 2

\* what a call on a lock or event that is destroyed and NULL does: the
\* process ends, or the call fails and the caller goes on
Misuses == {"crash", "goes on"}

\* thread.c:258-270, thread_event_signal: pthread_cond_signal wakes a thread
\* that is waiting on the condition; without one nothing is recorded
thread_event_signal(e) ==
    IF e.waiting THEN [e EXCEPT !.signalled = TRUE] ELSE e

\* what the actions of the plugin leave alone
TraffFrame ==
    /\ UNCHANGED deadline
    /\ UNCHANGED live
    /\ UNCHANGED fvars
    /\ UNCHANGED xvars
    /\ UNCHANGED tvars
    /\ UNCHANGED avars
    /\ UNCHANGED svars
    /\ UNCHANGED mvars
    /\ UNCHANGED seen

\* traffic_traff_http.c:406-438, traffic_traff_http_set_selection on the
\* main thread, up to thread_lock_acquire_write(this_->queue_lock)
SetSelectionAcquire ==
    /\ pc.main = "idle"
    /\ priv.queue < MaxQueue
    /\ priv.queue_lock \in {"free", "NULL"}
    /\ IF priv.queue_lock = "free"
       THEN /\ priv' = [priv EXCEPT !.queue_lock = "main"]
            /\ pc' = [pc EXCEPT !.main = "append"]
            /\ UNCHANGED ev
       ELSE /\ \E misuse \in Misuses :
                 pc' = [pc EXCEPT !.main = IF misuse = "crash" THEN "crashed"
                                           ELSE "append"]
            /\ ev' = [ev EXCEPT !.misuse = "queue_lock"]
            /\ UNCHANGED priv
    /\ TraffFrame

\* traffic_traff_http.c:439-441, the request is appended, the event is
\* signalled and the lock is released
SetSelectionPost ==
    /\ pc.main = "append"
    /\ priv' = [priv EXCEPT !.queue = priv.queue + 1,
                            !.queue_lock = IF priv.queue_lock = "main"
                                           THEN "free" ELSE priv.queue_lock]
    /\ ev' = IF priv.queue_event = "NULL"
             THEN [ev EXCEPT !.misuse = "queue_event"]
             ELSE thread_event_signal(ev)
    /\ pc' = [pc EXCEPT !.main = "idle"]
    /\ TraffFrame

\* traffic_traff_http.c:116, traffic_traff_http_destroy sets exiting
DestroyExiting ==
    /\ pc.main = "idle"
    /\ ~ priv.exiting
    /\ priv' = [priv EXCEPT !.exiting = TRUE]
    /\ pc' = [pc EXCEPT !.main = "signal"]
    /\ UNCHANGED ev
    /\ TraffFrame

\* traffic_traff_http.c:117, thread_event_signal(this_->queue_event)
DestroySignal ==
    /\ pc.main = "signal"
    /\ IF priv.queue_event = "NULL"
       THEN /\ ev' = [ev EXCEPT !.misuse = "queue_event"]
            /\ \E misuse \in Misuses :
                 pc' = [pc EXCEPT !.main = IF misuse = "crash" THEN "crashed"
                                           ELSE "join"]
       ELSE /\ ev' = thread_event_signal(ev)
            /\ pc' = [pc EXCEPT !.main = "join"]
    /\ UNCHANGED priv
    /\ TraffFrame

\* traffic_traff_http.c:125, thread_join returns when the worker has ended
DestroyJoin ==
    /\ pc.main = "join"
    /\ pc.worker = "done"
    /\ pc' = [pc EXCEPT !.main = "idle"]
    /\ UNCHANGED <<priv, ev>>
    /\ TraffFrame

\* the worker thread runs as long as the process does
Running(at) == pc.worker = at /\ pc.main # "crashed"

\* traffic_traff_http.c:316-321, the top of the loop of the worker
WorkerTop ==
    /\ Running("top")
    /\ pc' = [pc EXCEPT !.worker = IF priv.exiting THEN "cleanup" ELSE "acquire"]
    /\ UNCHANGED <<priv, ev>>
    /\ TraffFrame

\* traffic_traff_http.c:323-346, the queue is emptied without the lock, the
\* event and the lock are destroyed and set to NULL, and the thread ends
WorkerCleanup ==
    /\ Running("cleanup")
    /\ priv' = [priv EXCEPT !.queue = 0, !.queue_event = "NULL",
                            !.queue_lock = "NULL"]
    /\ pc' = [pc EXCEPT !.worker = "done"]
    /\ UNCHANGED ev
    /\ TraffFrame

\* traffic_traff_http.c:350 and 376, thread_lock_acquire_write
WorkerAcquire ==
    /\ Running("acquire")
    /\ priv.queue_lock = "free"
    /\ priv' = [priv EXCEPT !.queue_lock = "worker"]
    /\ pc' = [pc EXCEPT !.worker = "check"]
    /\ UNCHANGED ev
    /\ TraffFrame

\* traffic_traff_http.c:351-355 and 378-380, the loop condition under the
\* lock: a request is taken from the queue, or the event is reset (which
\* does nothing, thread.c:272-279); either way the lock is released
WorkerCheck ==
    /\ Running("check")
    /\ IF priv.queue > 0
       THEN /\ priv' = [priv EXCEPT !.queue = priv.queue - 1,
                                    !.queue_lock = "free"]
            /\ pc' = [pc EXCEPT !.worker = "request"]
       ELSE /\ priv' = [priv EXCEPT !.queue_lock = "free"]
            /\ pc' = [pc EXCEPT !.worker = "poll"]
    /\ UNCHANGED ev
    /\ TraffFrame

\* traffic_traff_http.c:357-373, the request is sent and answered
WorkerRequest ==
    /\ Running("request")
    /\ pc' = [pc EXCEPT !.worker = "acquire"]
    /\ UNCHANGED <<priv, ev>>
    /\ TraffFrame

\* traffic_traff_http.c:382-393, the poll, if one is due
WorkerPoll ==
    /\ Running("poll")
    /\ pc' = [pc EXCEPT !.worker = "wait"]
    /\ UNCHANGED <<priv, ev>>
    /\ TraffFrame

\* traffic_traff_http.c:396, thread_event_wait is entered: the thread
\* blocks on the condition whatever was signalled before (thread.c:285-303)
WorkerWait ==
    /\ Running("wait")
    /\ ev' = [ev EXCEPT !.waiting = TRUE, !.signalled = FALSE,
                        !.stale = priv.queue > 0]
    /\ pc' = [pc EXCEPT !.worker = "blocked"]
    /\ UNCHANGED priv
    /\ TraffFrame

\* pthread_cond_timedwait returns because the condition was signalled
WorkerWake ==
    /\ Running("blocked")
    /\ ev.signalled
    /\ ev' = [ev EXCEPT !.waiting = FALSE, !.signalled = FALSE,
                        !.ended = "signalled"]
    /\ pc' = [pc EXCEPT !.worker = "top"]
    /\ UNCHANGED priv
    /\ TraffFrame

\* pthread_cond_timedwait returns because the interval is over: nothing
\* was signalled during the whole wait
WorkerTimeout ==
    /\ Running("blocked")
    /\ ~ ev.signalled
    /\ ev' = [ev EXCEPT !.waiting = FALSE, !.ended = "timed out"]
    /\ pc' = [pc EXCEPT !.worker = "top"]
    /\ UNCHANGED priv
    /\ TraffFrame

NextTraff ==
    \/ SetSelectionAcquire
    \/ SetSelectionPost
    \/ DestroyExiting
    \/ DestroySignal
    \/ DestroyJoin
    \/ WorkerTop
    \/ WorkerCleanup
    \/ WorkerAcquire
    \/ WorkerCheck
    \/ WorkerRequest
    \/ WorkerPoll
    \/ WorkerWait
    \/ WorkerWake
    \/ WorkerTimeout

SpecTraff == Init /\ [][NextTraff]_vars

C32_CleanShutdown ==
    /\ ev.misuse = "none"
    /\ (priv.exiting /\ pc.main = "idle") => pc.worker = "done"

(***************************************************************************)
(* thread_event_wait: the absolute deadline handed to                      *)
(* pthread_cond_timedwait.                                                 *)
(***************************************************************************)
\* the largest whole number of seconds, of the time of day and of msec
MaxWaitSec == 2

\* microsecond parts of the time of day that gettimeofday returns
Usecs == {0, 1, 500000, 999999}

\* the times of day at which thread_event_wait is entered
Nows == {Timeval(s, u) : s \in 0..MaxWaitSec, u \in Usecs}

\* the values of msec, all of them >= 0: below one second, whole seconds
\* and seconds with a fraction
Msecs == {0, 1, 250, 500, 999}
         \cup {1000 * k : k \in 1..MaxWaitSec}
         \cup {1000 * k + 500 : k \in 1..MaxWaitSec}

\* thread.c:290-299, the else branch of thread_event_wait, statement by
\* statement; msec is a long >= 0, so msec / 1000 and msec % 1000 are the
\* integer quotient and remainder and floor() changes nothing
thread_event_wait(tp, msec) ==
    LET sec0  == tp.tv_sec + (msec \div 1000)
        nsec0 == tp.tv_usec + (msec % 1000) * 1000000
        sec1  == sec0 + (nsec0 \div 1000000)
        nsec1 == nsec0 % 1000000
    IN  [tv_sec |-> sec1, tv_nsec |-> nsec1 * 1000]

\* thread.c:282-303, thread_event_wait(this_, msec) with msec >= 0, entered
\* at time of day tp: the deadline passed to pthread_cond_timedwait
EventWait ==
    /\ \E tp \in Nows, msec \in Msecs :
          deadline' = [tp |-> tp, msec |-> msec,
                       ts |-> thread_event_wait(tp, msec)]
    /\ UNCHANGED <<priv, pc, ev>>
    /\ UNCHANGED live
    /\ UNCHANGED fvars
    /\ UNCHANGED xvars
    /\ UNCHANGED tvars
    /\ UNCHANGED avars
    /\ UNCHANGED svars
    /\ UNCHANGED mvars
    /\ UNCHANGED seen

NextWait == EventWait

SpecWait == Init /\ [][NextWait]_vars

\* microseconds from the epoch of a time of day
Microseconds(tv) == tv.tv_sec * 1000000 + tv.tv_usec

\* C33: for msec >= 0 the deadline of thread_event_wait is the time of
\* entry plus msec milliseconds, with 0 <= tv_nsec < 1,000,000,000, so that
\* an unsignalled caller is blocked for msec milliseconds and no longer.
C33_DeadlineIsNowPlusMsec ==
    /\ deadline.ts.tv_nsec >= 0
    /\ deadline.ts.tv_nsec < 1000000000
    /\ deadline.ts.tv_nsec % 1000 = 0
    /\ deadline.ts.tv_sec * 1000000 + (deadline.ts.tv_nsec \div 1000)
          = Microseconds(deadline.tp) + deadline.msec * 1000

(***************************************************************************)
(* The Android vehicle: which raw entry becomes the fused location, and    *)
(* the validity of the raw entries over the callbacks.                     *)
(***************************************************************************)
\* the raw set as the position callback leaves it for
\* vehicle_android_update_position (vehicle_android.c:296-328)
Stored(loc) ==
    [raw_loc EXCEPT ![IF loc.provider = "gps" THEN raw_index_gps
                      ELSE raw_index_network] = AndroidStore(@, loc)]

\* the entries of a raw set that are valid
ValidEntries(in) ==
    {k \in DOMAIN in : in[k].valid = attr_position_valid_valid}

\* C34: vehicle_android_update_position copies to the fused location the
\* entry with the most recent fix time among the raw entries that are valid
\* when it is called; an entry that is not valid is never preferred to a
\* valid one.
C34_LatestValidEntry ==
    [][ \A loc \in AndroidLocations :
          (PositionCallback(loc) /\ ~ scan'.crashed)
             => \E k \in ValidEntries(Stored(loc)) :
                   /\ \A j \in ValidEntries(Stored(loc)) :
                         ~ TimerGt(Stored(loc)[j].fix_time, Stored(loc)[k].fix_time)
                   /\ out'.fix_time = Stored(loc)[k].fix_time
                   /\ out'.geo = Stored(loc)[k].geo
                   /\ out'.valid = attr_position_valid_valid ]_vars

\* C35: after a fix callback with fix type 0 the GPS entry is not valid,
\* the GPS entry becomes valid again only by a position report of the GPS,
\* and after every position report the entry of its provider is valid.
C35_FixLossDowngrades ==
    /\ [] ( /\ (op.name = "fix_callback" /\ op.value = 0)
                => raw_loc[raw_index_gps].valid # attr_position_valid_valid
            /\ op.name = "position_callback"
                => raw_loc[IF op.attr = "gps" THEN raw_index_gps
                           ELSE raw_index_network].valid
                      = attr_position_valid_valid )
    /\ [][ ( /\ raw_loc[raw_index_gps].valid # attr_position_valid_valid
             /\ raw_loc'[raw_index_gps].valid = attr_position_valid_valid )
            => (op'.name = "position_callback" /\ op'.attr = "gps") ]_vars

(***************************************************************************)
(* The divisions of the route walk.                                        *)
(***************************************************************************)
\* location.c:831-904, the segments the walk looks at, in order: for each
\* the time left when it is reached, the speed on it, the time it takes and
\* whether the walk interpolates on it.  The list ends with the segment on
\* which the walk stops, crashes or divides by zero.
RECURSIVE Segments(_, _, _, _, _, _, _, _)
Segments(items, k, j, pos, timespan, sim_speed0, vp, deref) ==
    IF k > Len(items) THEN <<>>
    ELSE IF j >= Len(items[k].coords)
    THEN Segments(items, k + 1, 0, pos, timespan, sim_speed0, vp, deref)
    ELSE
    LET item == items[k]
        c == item.coords[j + 1]
        sim_speed == IF sim_speed0 = 0 THEN SimSpeed(item, vp, deref)
                     ELSE sim_speed0
        slen == transform_distance(pos, c)
        stime == (slen * 36) \div sim_speed
        more == j + 1 < Len(item.coords) \/ k < Len(items)
        Seg(st, ip) == [timespan |-> timespan, sim_speed |-> sim_speed,
                        stime |-> st, interpolates |-> ip]
    IN  IF sim_speed < 0 THEN <<>>
        ELSE IF sim_speed = 0 THEN <<Seg(0, FALSE)>>
        ELSE IF stime < timespan
        THEN <<Seg(stime, FALSE)>>
             \o Segments(items, k, j + 1, c, timespan - stime, sim_speed0, vp,
                         deref)
        ELSE <<Seg(stime, more)>>

\* location.c:717-831, the segments of the walk of a call of
\* location_extrapolate; none when the call returns before the walk
SegmentsOf(in, nav, speed, tv_new, deref) ==
    IF in.fix_time.tv_sec = 0 /\ in.fix_time.tv_usec = 0 THEN <<>>
    ELSE IF TooEarly(Timespan(in.fix_time, tv_new)) THEN <<>>
    ELSE IF nav.access # "ok" \/ Len(nav.items) = 0 THEN <<>>
    ELSE
    LET items == nav.items
        j1 == IF Len(items[1].coords) >= 1 THEN 1 ELSE 0
        k2 == IF items[1].type = "type_route_start" THEN 2 ELSE 1
        k3 == SkipToStreet(items, k2)
        j3 == IF k3 = 1 THEN j1 ELSE 0
    IN  IF k3 <= Len(items) /\ j3 < Len(items[k3].coords)
        THEN Segments(items, k3, j3 + 1, items[k3].coords[j3 + 1],
                      Timespan(in.fix_time, tv_new), speed, nav.vp, deref)
        ELSE <<>>

\* C36: on every segment of the route walk the time left is strictly
\* positive and the speed is not zero, and where the walk interpolates the
\* time of the segment is not zero: no call of location_extrapolate divides
\* by zero.
C36_NoDivisionByZero ==
    /\ called # "divided by zero"
    /\ \A deref \in Derefs :
         \E segs \in {SegmentsOf(ex_in, navit, aspeed, tv_now, deref)} :
            \A n \in DOMAIN segs :
               /\ segs[n].timespan > 0
               /\ segs[n].sim_speed # 0
               /\ segs[n].interpolates => segs[n].stime # 0

\* a call has walked over the first street and over a segment of length
\* zero, which takes no time, and has interpolated on the second street
C36_Witness ==
    /\ called = "returned"
    /\ ret = 1
    /\ ~ alias
    /\ \E segs \in {SegmentsOf(ex_in, navit, aspeed, tv_now, "lesser")} :
          /\ Len(segs) = 3
          /\ segs[2].stime = 0
          /\ segs[3].interpolates
          /\ ex_out.speed = Q(segs[3].sim_speed, 1)

(***************************************************************************)
(* The raw set across a fusion pass.                                       *)
(***************************************************************************)
\* C37: a fusion pass does not modify the raw set: when the position
\* callback returns, every raw entry is as the callback stored it before it
\* called vehicle_android_update_position.
C37_PassLeavesRawSet ==
    [][ \A loc \in AndroidLocations :
          PositionCallback(loc) => raw_loc' = Stored(loc) ]_vars

(***************************************************************************)
(* The presence bits of the fused location.                                *)
(***************************************************************************)
\* the position winners of in that carry an accuracy radius
RadiusSlots(in) ==
    {i \in WinnerSlots(in, location_flag_has_geo) :
        location_has_position_accuracy(in[i])}

\* C38: after every pass of location_update the presence bit of an
\* attribute is set in the fused location if and only if a contributing raw
\* entry supplied that attribute: position, speed, bearing, altitude,
\* satellite data, and the accuracy radius of a fused position.
C38_PresenceBits ==
    /\ \A flag \in AttrFlags :
          HasFlag(out.flags, flag) <=> WinnerSlots(raw_loc, flag) # {}
    /\ location_has_sat_data(out) <=> SatSlots(raw_loc) # {}
    /\ location_has_position_accuracy(out) <=> RadiusSlots(raw_loc) # {}

(***************************************************************************)
(* The elapsed time of location_extrapolate.                               *)
(***************************************************************************)
\* the time from tv_old to tv_new in microseconds
Elapsed(tv_old, tv_new) ==
    (tv_new.tv_sec - tv_old.tv_sec) * 1000000 + (tv_new.tv_usec - tv_old.tv_usec)

\* C39: whenever the current time is not earlier than the fix time of the
\* previous location, the timespan location_extrapolate computes, in tenths
\* of a second, is the elapsed time rounded to the nearest tenth: it is off
\* by no more than half a tenth.
C39_TimespanIsRounded ==
    Elapsed(ex_in.fix_time, tv_now) >= 0 =>
        \E timespan \in {Timespan(ex_in.fix_time, tv_now)} :
            /\ timespan * 100000 - Elapsed(ex_in.fix_time, tv_now) <= 50000
            /\ Elapsed(ex_in.fix_time, tv_now) - timespan * 100000 <= 50000

(***************************************************************************)
(* The temporary location of a fusion pass.                                *)
(***************************************************************************)
\* C40: every temporary location a fusion pass allocates is released
\* before the pass returns, on the normal path and on the early return for
\* an invalid result: after every call no temporary location is live.
C40_NoLiveTemporaries == live = 0

====
